---- MODULE Spec2Model ----
(***************************************************************************)
(* Verification model of BTBurke/monny.                                    *)
(*                                                                         *)
(* Part I  - the supervisor (Command.Exec, the process handlers, the       *)
(*           report dispatcher Report.Send / senderService).               *)
(* Part II - the estimator (stat.TestStatistic over fsm.Machine and        *)
(*           metric.Series / metric.SampledSeries).                        *)
(* Part III - the composite test (stat.Test over several statistics).      *)
(* Part IV - the event bus (eventbus.EventBus).                            *)
(* Part V  - the state machines (fsm.Machine, fsm.MachineNonce).           *)
(* Part VI - the bounded line histories (Command.Stdout / Stderr,          *)
(*           proc.Queue).                                                  *)
(* Part VII - the log processor (proc.LogProcessor).                       *)
(* Part VIII - the metric package (Series, SampledSeries,                  *)
(*           WindowedCounter).                                             *)
(*                                                                         *)
(* Specifications:                                                         *)
(*   SpecSup  - one supervised run, from New to os.Exit, over a set of     *)
(*              configurations; the clock stands still.                    *)
(*   SpecWarn - the same run for commands with warning and kill            *)
(*              thresholds and no rules.                                   *)
(*   SpecSend - Report.Send called directly on a command in any state,     *)
(*              with the clock advancing.                                  *)
(*   SpecStat - one test statistic under Record, Transition and the        *)
(*              ticks of its sampled series.                               *)
(*   SpecTest - a composite of two statistics under Record, Transition     *)
(*              and the ticks of their series.                             *)
(*   SpecBus  - one event bus under concurrent Subscribe, Unsubscribe,     *)
(*              Dispatch and Shutdown calls, for two kinds of callers.     *)
(*   SpecFsm  - a Machine and a MachineNonce under arbitrary calls.        *)
(*   SpecHist - the line histories and a Queue, for every capacity, under  *)
(*              the lines of a run.                                        *)
(*   SpecLog  - a log processor: its emitters, their sinks and Wait.       *)
(*   SpecSeries - a Series under Record.                                   *)
(*   SpecSampled - a SampledSeries under concurrent Record calls and       *)
(*              ticks.                                                     *)
(*   SpecCounter - a WindowedCounter under Add and Reset as time passes.   *)
(*   SpecTimed - the run of SpecWarn with the clock advancing.             *)
(***************************************************************************)
EXTENDS Bags, FiniteSets, Integers, Naturals, Sequences, TLC

(***************************************************************************)
(* Bounds of the model.                                                    *)
(***************************************************************************)
\* lines the child writes on stdout and stderr together
MaxLines == 2
\* ticks of the wall clock during one run
MaxTime == 2
\* entries of Config.Creates
MaxCreates == 2
\* largest resident-memory sample returned by calculateMemory
MaxMem == 1
\* rule matches the command holds when Report.Send is called directly
MaxMatches == 2
\* direct calls of Report.Send in one run
MaxSends == 1

(***************************************************************************)
(* proto.ReportReason and proto.KillReason (iota enums).                   *)
(***************************************************************************)
Success == 1
Failure == 2
Alert == 3
AlertRate == 4
MemoryWarning == 5
TimeWarning == 6
FileNotCreated == 7
Killed == 8
Start == 9

Timeout == 1
Memory == 2
Signal == 3

\* every value a proto.ReportReason argument is drawn from: the nine enum
\* members, the zero value and one value past the enum
ReasonValues == 0..10

TerminalReasons == {Success, Failure, Killed, FileNotCreated}

Streams == {"stdout", "stderr"}

VARIABLES
    Config,        \* Command.Config, immutable after New
    c,             \* the Command record
    now,           \* wall clock (time.Now)
    mainPc,        \* position of main / Command.Exec / Command.Wait
    fileIdx,       \* loop index of handleFileCreation
    child,         \* state of the child process
    emitted,       \* lines written by the child so far
    scanner,       \* the two scanner goroutines of Exec
    mutex,         \* Command.mutex
    finisher,      \* the goroutine of Exec that feeds runFinished
    runFinished,   \* the runFinished channel holds a value
    timeout,       \* kill timer of Exec
    timenotify,    \* warn timer of Exec
    sends,         \* bag of running Report.Send goroutines
    wg,            \* senderService.wg counter
    handed,        \* history: number of `go c.report.Send(c, r)` per reason
    started,       \* history: number of `go r.sender.sendBackground` per reason
    terminal       \* history: the terminal handler that concluded Exec

supVars == <<Config, c, now, mainPc, fileIdx, child, emitted, scanner, mutex,
             finisher, runFinished, timeout, timenotify, sends, wg, handed,
             started, terminal>>

VARIABLES
    estimator,       \* the TestStatistic
    calls,      \* history: operations applied so far
    lastOp,     \* history: the last operation, its arguments and its result
    allowable   \* Machine.allowable as NewMachine builds it

statVars == <<estimator, calls, lastOp, allowable>>

VARIABLES
    test,         \* Test.sub, the statistics of a composite test
    offered,      \* history: per statistic, the observations its Record got
    testCalls,    \* history: operations applied to the composite so far
    testOp        \* history: the last composite operation and its result

testVars == <<test, offered, testCalls, testOp>>

VARIABLES
    subscribers,  \* EventBus.subscribers: per topic, the list of streams
    done,         \* EventBus.done: the list of done channels
    sdStarted,    \* EventBus.sdStarted
    writer,       \* EventBus.mutex: who has announced Lock, if anyone
    stream,       \* per subscriber, its event channel (buffer of 1)
    doneClosed,   \* the subscribers whose done channel is closed
    subscriber,   \* per subscriber, what it asked for and what it has read
    busCalls,     \* bag of the Subscribe and Unsubscribe calls in progress
    events,       \* the Dispatch calls made so far, each with its position
    shutdown,     \* the Shutdown call
    deliveries,   \* the inner goroutines of Dispatch, one per stream
    ctxExpired,   \* the context given to Shutdown is done
    busPanic,     \* a goroutine of the process has panicked
    callers       \* what the callers of the bus ask for in this run

busVars == <<subscribers, done, sdStarted, writer, stream, doneClosed,
             subscriber, busCalls, events, shutdown, deliveries, ctxExpired,
             busPanic, callers>>

VARIABLES
    machine,       \* a fsm.Machine: current, initial and its stoppable
    nonceMachine,  \* a fsm.MachineNonce: its Machine and its nonce
    issued,        \* how many nonces newNonce has produced
    spent,         \* the nonces that have been current and were replaced
    latched,       \* per machine, an attempt has failed since the last reset;
                   \* a wrong nonce was supplied since the last reset, or ever
    fsmOp,         \* the last call on one of the two machines
    fsmCalls       \* calls made on the two machines

fsmVars == <<machine, nonceMachine, issued, spent, latched, fsmOp, fsmCalls>>

VARIABLES
    hist,         \* the configured history capacity (StdoutHistory,
                  \* StderrHistory, logProcOpt.hist)
    history,      \* per stream, Command.Stdout / Command.Stderr, the lines
                  \* scanned so far and whether the scanning goroutine panicked
    queue         \* a proc.Queue, the Add calls made and whether one panicked

histVars == <<hist, history, queue>>

VARIABLES
    source,       \* per log source, its Queue and how far its emitter is
    sink,         \* per sink, what was written to it and whether it is closed
    lineEvents,   \* per source, the LogLine events dispatched on LogTopic
    errorEvents,  \* the events dispatched on the error topic
    wait,         \* the call of LogProcessor.Wait
    logCtx        \* the context given to Wait is done

logVars == <<source, sink, lineEvents, errorEvents, wait, logCtx>>

VARIABLES
    series,       \* a metric.Series
    recorded      \* history: the observations given to series.Record

serVars == <<series, recorded>>

VARIABLES
    ss,           \* a metric.SampledSeries: its Series, obs and mu
    recorders,    \* the calls of SampledSeries.Record in progress
    ticker,       \* the ticker goroutine of NewSampledSeries
    samples       \* history: per tick, the observations the goroutine found

sampVars == <<ss, recorders, ticker, samples>>

VARIABLES
    counter,      \* a metric.WindowedCounter: hist and current
    clock,        \* what time.Now() returns
    added         \* history: total of the amounts added since Reset

ctrVars == <<counter, clock, added>>

metVars == <<serVars, sampVars, ctrVars>>

tailVars == <<histVars, logVars, metVars>>

extVars == <<testVars, busVars, fsmVars, tailVars>>

vars == <<supVars, statVars, extVars>>

\* no composite test while the other parts are explored
IdleTest ==
    /\ test = <<>>
    /\ offered = <<>>
    /\ testCalls = 0
    /\ testOp = [op |-> "none", err |-> "nil", n |-> 0]

\* Shutdown has not been called
NoShutdown == [pc |-> "none", deadline |-> FALSE, snapshot |-> {},
               err |-> "nil", since |-> 0]

\* eventbus.New
NewBus ==
    /\ subscribers = [t \in {"a", "b", "__default__"} |-> <<>>]
    /\ done = <<>>
    /\ sdStarted = FALSE
    /\ writer = "none"
    /\ stream = <<>>
    /\ doneClosed = {}
    /\ subscriber = <<>>
    /\ busCalls = EmptyBag
    /\ events = <<>>
    /\ shutdown = NoShutdown
    /\ deliveries = {}
    /\ ctxExpired = FALSE
    /\ busPanic = FALSE

\* callers that use no topic, some of them not reading their stream, with
\* two calls in progress at a time
SlowCallers ==
    [kinds |-> {<<<<>>, TRUE>>, <<<<>>, FALSE>>}, topics |-> {<<>>},
     pending |-> 2]

\* callers that use topics and read their streams, one call at a time
TopicCallers ==
    [kinds |-> {<<<<"a">>, TRUE>>, <<<<"a", "b">>, TRUE>>,
                <<<<"__default__">>, TRUE>>},
     topics |-> {<<"a">>, <<"b">>}, pending |-> 1]

\* callers that subscribe to two topics and name two topics in a Dispatch
\* call, or one topic twice, one call at a time
MultiCallers ==
    [kinds |-> {<<<<"a", "b">>, TRUE>>},
     topics |-> {<<"a", "b">>, <<"a", "a">>}, pending |-> 1]

\* the bus untouched while the other parts are explored
IdleBus == NewBus /\ callers = SlowCallers

\* no call has been made on a machine
NoFsmOp ==
    [op |-> "none", from |-> "initial", to |-> "initial", err |-> "nil",
     latched |-> FALSE, supplied |-> 0, nonce |-> 0, replay |-> FALSE,
     wrong |-> FALSE, wrongEver |-> FALSE]

\* the machines untouched while the other parts are explored
IdleFsm ==
    /\ machine = [current |-> "initial", initial |-> "initial",
                  stopOnError |-> FALSE, stopped |-> FALSE]
    /\ nonceMachine = [m |-> [current |-> "initial", initial |-> "initial",
                              stopOnError |-> FALSE, stopped |-> FALSE],
                       nonce |-> [current |-> 1, once |-> FALSE,
                                  received |-> 0]]
    /\ issued = 1
    /\ spent = {}
    /\ latched = [k \in {"machine", "nonce", "wrong", "wrongEver"} |-> FALSE]
    /\ fsmOp = NoFsmOp
    /\ fsmCalls = 0

\* a proc.Queue as NewQueue(capacity) returns it, with no Add made
NewQueue(capacity) ==
    [q |-> <<>>, capacity |-> capacity, adds |-> 0, panic |-> FALSE]

\* no line scanned by the Command
NoHistory == [lines |-> <<>>, scanned |-> 0, panic |-> FALSE]

\* no history is kept while the other parts are explored
IdleHist ==
    /\ hist = 0
    /\ history = [s \in {"stdout", "stderr"} |-> NoHistory]
    /\ queue = NewQueue(0)

\* Wait has not been called
NoWait == [pc |-> "none", err |-> "nil"]

\* no log processor while the other parts are explored
IdleLog ==
    /\ source = <<>>
    /\ sink = <<>>
    /\ lineEvents = <<>>
    /\ errorEvents = {}
    /\ wait = NoWait
    /\ logCtx = FALSE

\* a Counter
NewCounterAt(start, duration) ==
    [start |-> start, duration |-> duration, value |-> 0]

\* no metric is kept while the other parts are explored
IdleSer == series = <<>> /\ recorded = <<>>

IdleSamp ==
    /\ ss = <<>>
    /\ recorders = <<>>
    /\ ticker = "none"
    /\ samples = <<>>

IdleCtr ==
    /\ counter = [hist |-> <<>>, current |-> NewCounterAt(0, 0)]
    /\ clock = 0
    /\ added = 0

IdleMet == IdleSer /\ IdleSamp /\ IdleCtr

IdleTail == IdleHist /\ IdleLog /\ IdleMet

IdleExt == IdleTest /\ IdleBus /\ IdleFsm /\ IdleTail

(***************************************************************************)
(* Helpers.                                                                *)
(***************************************************************************)
\* the process is running: it has not called os.Exit and has not panicked
Alive == mainPc \notin {"exit0", "exit1", "panic"}

\* main has called Command.Wait
WaitCalled == mainPc \in {"waiting", "exit0"}

RECURSIVE SumOver(_, _)
\* the sum of a counter over a set of reasons
SumOver(f, S) ==
    IF S = {} THEN 0
    ELSE LET x == CHOOSE y \in S : TRUE IN f[x] + SumOver(f, S \ {x})

RECURSIVE CountWithin(_, _, _)
\* loop of calcAlertRate for period > 0
CountWithin(matches, t, period) ==
    IF matches = <<>> THEN 0
    ELSE (IF t - Head(matches).Time <= period THEN 1 ELSE 0)
         + CountWithin(Tail(matches), t, period)

calcAlertRate(matches, quantity, period, t) ==
    LET matchesInPeriod == IF period > 0 THEN CountWithin(matches, t, period)
                           ELSE Len(matches)
    IN  matchesInPeriod >= quantity

\* Report.Send whose MemoryWarning case does not read the latch
SendGateOpen_IgnoreLatch(reason) ==
    CASE reason = Failure        -> Config.NotifyOnFailure
      [] reason = Success        -> Config.NotifyOnSuccess
      [] reason = FileNotCreated -> TRUE
      [] reason = Killed         -> TRUE
      [] reason = Alert          -> TRUE
      [] reason = AlertRate      -> calcAlertRate(c.RuleMatches, Config.RuleQuantity,
                                                  Config.RulePeriod, now)
      [] reason = MemoryWarning  -> TRUE
      [] reason = TimeWarning    -> ~c.timeWarnSent
      [] reason = Start          -> Config.Daemon
      [] OTHER                   -> FALSE

\* the switch of Report.Send: TRUE when the case starts sendBackground
SendGateOpen(reason) ==
    CASE reason = Failure        -> Config.NotifyOnFailure
      [] reason = Success        -> Config.NotifyOnSuccess
      [] reason = FileNotCreated -> TRUE
      [] reason = Killed         -> TRUE
      [] reason = Alert          -> TRUE
      [] reason = AlertRate      -> calcAlertRate(c.RuleMatches, Config.RuleQuantity,
                                                  Config.RulePeriod, now)
      [] reason = MemoryWarning  -> ~c.memWarnSent
      [] reason = TimeWarning    -> ~c.timeWarnSent
      [] reason = Start          -> Config.Daemon
      [] OTHER                   -> FALSE

\* a new goroutine running Report.Send(c, reason)
NewSend(reason) ==
    [reason |-> reason, pc |-> "create", bg |-> "none", result |-> "none",
     snap |-> <<>>, early |-> ~WaitCalled]

\* the statement `go c.report.Send(c, reason)`
GoSend(reason) ==
    /\ sends' = sends (+) SetToBag({NewSend(reason)})
    /\ handed' = [handed EXCEPT ![reason] = @ + 1]

Replace(old, new) == (sends (-) SetToBag({old})) (+) SetToBag({new})

Remove(old) == sends (-) SetToBag({old})

(***************************************************************************)
(* Initial state: a Command as New returns it, before Exec.                *)
(***************************************************************************)
\* newConfig without options
DefaultHistory == 30

DefaultConfig ==
    [NotifyOnSuccess |-> TRUE, NotifyOnFailure |-> TRUE, Daemon |-> FALSE,
     Rules |-> 0, RuleQuantity |-> 0, RulePeriod |-> 0,
     MemoryWarn |-> 0, MemoryKill |-> 0, KillTimeout |-> 0,
     NotifyTimeout |-> 0, Creates |-> 0,
     StdoutHistory |-> DefaultHistory, StderrHistory |-> DefaultHistory]

RECURSIVE ApplyOptions(_, _)
\* the loop of newConfig over the ConfigOption values, each one a field and
\* the value it sets
ApplyOptions(cfg, opts) ==
    IF opts = {} THEN cfg
    ELSE LET o == CHOOSE x \in opts : TRUE
         IN  ApplyOptions([cfg EXCEPT ![o[1]] = o[2]], opts \ {o})

\* the option lists of the supervised runs that are explored
Profiles ==
    {{},
     {<<"Rules", 1>>},
     {<<"Rules", 1>>, <<"RuleQuantity", 1>>},
     {<<"NotifyOnSuccess", FALSE>>, <<"NotifyOnFailure", FALSE>>},
     {<<"MemoryWarn", 1>>},
     {<<"MemoryWarn", 1>>, <<"MemoryKill", 1>>},
     {<<"KillTimeout", 1>>},
     {<<"NotifyTimeout", 1>>},
     {<<"StdoutHistory", 1>>, <<"StderrHistory", 1>>}}
    \cup {{<<"Creates", n>>} : n \in 1..MaxCreates}

ConfigSpace == {ApplyOptions(DefaultConfig, os) : os \in Profiles}

\* the zero-valued Command of New
NewCommand ==
    [Success |-> FALSE, ExitCode |-> 0, ExitCodeValid |-> FALSE,
     ReportReason |-> 0, Killed |-> FALSE, KillReason |-> 0,
     RuleMatches |-> <<>>, Stdout |-> <<>>, Stderr |-> <<>>,
     Messages |-> <<>>, Created |-> <<>>, MaxMemory |-> 0,
     memWarnSent |-> FALSE, timeWarnSent |-> FALSE,
     Start |-> 0, Finish |-> 0, Duration |-> 0]

NewScanner == [pc |-> "idle", line |-> 0, hit |-> FALSE, old |-> <<>>]

InitCommon ==
    /\ fileIdx = 0
    /\ child = "notstarted"
    /\ emitted = 0
    /\ scanner = [s \in Streams |-> NewScanner]
    /\ mutex = "free"
    /\ finisher = "idle"
    /\ runFinished = FALSE
    /\ timeout = "off"
    /\ timenotify = "off"
    /\ sends = EmptyBag
    /\ wg = 0
    /\ handed = [r \in ReasonValues |-> 0]
    /\ started = [r \in ReasonValues |-> 0]
    /\ terminal = "none"

(***************************************************************************)
(* Command.Exec up to the select loop.                                     *)
(***************************************************************************)
ExecStart ==
    /\ mainPc = "new"
    /\ c' = [c EXCEPT !.Start = now]
    /\ child' = "running"
    /\ scanner' = [s \in Streams |-> [NewScanner EXCEPT !.pc = "scan"]]
    /\ finisher' = "wait"
    /\ timeout' = IF Config.KillTimeout > 0 THEN "armed" ELSE "off"
    /\ timenotify' = IF Config.NotifyTimeout > 0 THEN "armed" ELSE "off"
    /\ mainPc' = "loop"
    /\ UNCHANGED <<Config, now, fileIdx, emitted, mutex, runFinished, sends,
                   wg, handed, started, terminal>>

\* time.Now advances
Tick ==
    /\ Alive
    /\ mainPc # "new"
    /\ now < MaxTime
    /\ now' = now + 1
    /\ UNCHANGED <<Config, c, mainPc, fileIdx, child, emitted, scanner, mutex,
                   finisher, runFinished, timeout, timenotify, sends, wg,
                   handed, started, terminal>>

\* the child exits by itself, with status 0 or not
ChildExit ==
    /\ Alive
    /\ child = "running"
    /\ \E st \in {"exited_ok", "exited_fail"} : child' = st
    /\ UNCHANGED <<Config, c, now, mainPc, fileIdx, emitted, scanner, mutex,
                   finisher, runFinished, timeout, timenotify, sends, wg,
                   handed, started, terminal>>

ChildGone == child \in {"exited_ok", "exited_fail", "killed"}

(***************************************************************************)
(* The scanner goroutines: Scan, Write, processStdout / processStderr.     *)
(***************************************************************************)
\* a goroutine that may run the unlocked write of cb while a scanner holds
\* the mutex: an Alert or AlertRate send that is past create
RacingCallback ==
    \E r \in BagToSet(sends) : r.reason \in {Alert, AlertRate} /\ r.pc # "create"

\* checkRule: whether the line scanned matches a rule of Config.Rules
checkRule == IF Config.Rules > 0 THEN BOOLEAN ELSE {FALSE}

\* c.RuleMatches = append(old, matches...)
Appended(old, line, hit, t) ==
    IF hit THEN Append(old, [Time |-> t, Line |-> line]) ELSE old

\* Scan() returns a line; checkRule; Lock; c.RuleMatches = append(...); Unlock.
\* The append reads c.RuleMatches and writes it back: when a callback can
\* write c.RuleMatches without the mutex in between, the read and the write
\* are two steps (AppendMatches is the second one).
ScanLine(s) ==
    /\ Alive
    /\ scanner[s].pc = "scan"
    /\ child # "notstarted"
    /\ emitted < MaxLines
    /\ mutex = "free"
    /\ emitted' = emitted + 1
    /\ \E hit \in checkRule :
         IF RacingCallback
         THEN /\ scanner' = [scanner EXCEPT ![s] =
                    [pc |-> "append", line |-> emitted + 1, hit |-> hit,
                     old |-> c.RuleMatches]]
              /\ mutex' = s
              /\ UNCHANGED c
         ELSE /\ scanner' = [scanner EXCEPT ![s] =
                    [pc |-> "alert", line |-> emitted + 1, hit |-> hit,
                     old |-> <<>>]]
              /\ c' = [c EXCEPT !.RuleMatches = Appended(@, emitted + 1, hit, now)]
              /\ UNCHANGED mutex
    /\ UNCHANGED <<Config, now, mainPc, fileIdx, child, finisher,
                   runFinished, timeout, timenotify, sends, wg, handed,
                   started, terminal>>

\* the write of the appended slice to c.RuleMatches and Unlock
AppendMatches(s) ==
    /\ Alive
    /\ scanner[s].pc = "append"
    /\ mutex = s
    /\ c' = [c EXCEPT !.RuleMatches =
                Appended(scanner[s].old, scanner[s].line, scanner[s].hit, now)]
    /\ mutex' = "free"
    /\ scanner' = [scanner EXCEPT ![s].pc = "alert", ![s].old = <<>>]
    /\ UNCHANGED <<Config, now, mainPc, fileIdx, child, emitted, finisher,
                   runFinished, timeout, timenotify, sends, wg, handed,
                   started, terminal>>

History(s) == IF s = "stdout" THEN c.Stdout ELSE c.Stderr

\* a history switch that evicts only once the history is over its capacity
HistorySwitch_Late(h, capacity, line) ==
    IF Len(h) > capacity
    THEN IF Len(h) < 2
         THEN [panic |-> TRUE, lines |-> h]
         ELSE [panic |-> FALSE, lines |-> Append(SubSeq(h, 3, Len(h)), line)]
    ELSE [panic |-> FALSE, lines |-> Append(h, line)]

\* the history switch of processStdout / processStderr:
\*   case history >= c.Config.StdoutHistory:
\*       c.Stdout = append(c.Stdout[2:], string(line))
\*   default: c.Stdout = append(c.Stdout, string(line))
\* c.Stdout[2:] panics (slice bounds out of range) when len(c.Stdout) < 2
HistorySwitch(h, capacity, line) ==
    IF Len(h) >= capacity
    THEN IF Len(h) < 2
         THEN [panic |-> TRUE, lines |-> h]
         ELSE [panic |-> FALSE, lines |-> Append(SubSeq(h, 3, Len(h)), line)]
    ELSE [panic |-> FALSE, lines |-> Append(h, line)]

HistoryCap(s) == IF s = "stdout" THEN Config.StdoutHistory ELSE Config.StderrHistory

\* the rest of processStdout / processStderr:
\*   if len(c.RuleMatches) > 0 { go c.report.Send(c, AlertRate | Alert) }
\*   the history switch under the mutex: append(h[2:], line) when
\*   len(h) >= capacity, which panics (slice bounds out of range) when
\*   len(h) < 2
AlertAndHistory(s) ==
    /\ Alive
    /\ scanner[s].pc = "alert"
    /\ mutex = "free"
    /\ IF Len(c.RuleMatches) > 0
       THEN GoSend(IF Config.RuleQuantity > 0 THEN AlertRate ELSE Alert)
       ELSE UNCHANGED <<sends, handed>>
    /\ LET sw == HistorySwitch(History(s), HistoryCap(s), scanner[s].line)
       IN  IF sw.panic
           THEN /\ mainPc' = "panic"
                /\ UNCHANGED <<c, scanner>>
           ELSE /\ c' = IF s = "stdout" THEN [c EXCEPT !.Stdout = sw.lines]
                        ELSE [c EXCEPT !.Stderr = sw.lines]
                /\ scanner' = [scanner EXCEPT ![s] = [NewScanner EXCEPT !.pc = "scan"]]
                /\ UNCHANGED mainPc
    /\ UNCHANGED <<Config, now, fileIdx, child, emitted, mutex, finisher,
                   runFinished, timeout, timenotify, wg, started, terminal>>

\* Scan() returns false: the pipe is closed and drained
ScanEOF(s) ==
    /\ Alive
    /\ scanner[s].pc = "scan"
    /\ ChildGone
    /\ scanner' = [scanner EXCEPT ![s].pc = "eof"]
    /\ UNCHANGED <<Config, c, now, mainPc, fileIdx, child, emitted, mutex,
                   finisher, runFinished, timeout, timenotify, sends, wg,
                   handed, started, terminal>>

ScannersDone == \A s \in Streams : scanner[s].pc = "eof"

\* wg.Wait(); cmd.Wait()
FinisherReap ==
    /\ Alive
    /\ finisher = "wait"
    /\ ScannersDone
    /\ ChildGone
    /\ finisher' = "reaped"
    /\ UNCHANGED <<Config, c, now, mainPc, fileIdx, child, emitted, scanner,
                   mutex, runFinished, timeout, timenotify, sends, wg, handed,
                   started, terminal>>

\* c.out.Close(); c.err.Close(); runFinished <- true
FinisherNotify ==
    /\ Alive
    /\ finisher = "reaped"
    /\ finisher' = "done"
    /\ runFinished' = TRUE
    /\ UNCHANGED <<Config, c, now, mainPc, fileIdx, child, emitted, scanner,
                   mutex, timeout, timenotify, sends, wg, handed, started,
                   terminal>>

(***************************************************************************)
(* The select loop of Exec and the process handlers.                       *)
(***************************************************************************)
\* cmd.Process.Signal fails once cmd.Wait has reaped the child
SignalFails == finisher \in {"reaped", "done"}

\* case <-runFinished: handler.Finished, first critical section
HandlerFinished ==
    /\ mainPc = "loop"
    /\ runFinished
    /\ mutex = "free"
    /\ runFinished' = FALSE
    /\ c' = [c EXCEPT !.Finish = now, !.Duration = now - c.Start]
    /\ terminal' = "Finished"
    /\ mainPc' = "finished"
    /\ UNCHANGED <<Config, now, fileIdx, child, emitted, scanner, mutex,
                   finisher, timeout, timenotify, sends, wg, handed, started>>

\* switch cmd.ProcessState.Success() of handler.Finished
FinishedStatus ==
    /\ mainPc = "finished"
    /\ mutex = "free"
    /\ IF child = "exited_ok"
       THEN /\ c' = [c EXCEPT !.Success = TRUE, !.ExitCodeValid = TRUE,
                              !.ReportReason = Success]
            /\ GoSend(Success)
       ELSE /\ c' = [c EXCEPT !.ExitCode = 1, !.ExitCodeValid = TRUE,
                              !.ReportReason = Failure, !.Success = FALSE]
            /\ GoSend(Failure)
    /\ fileIdx' = 1
    /\ mainPc' = "files"
    /\ UNCHANGED <<Config, now, child, emitted, scanner, mutex, finisher,
                   runFinished, timeout, timenotify, wg, started, terminal>>

\* one iteration of the loop of handleFileCreation
handleFileCreation ==
    /\ mainPc = "files"
    /\ fileIdx <= Config.Creates
    /\ mutex = "free"
    /\ \E stat \in {"notexist", "exists", "error"} :
         CASE stat = "notexist" ->
                /\ c' = [c EXCEPT !.Success = FALSE,
                                  !.Messages = Append(@, fileIdx),
                                  !.ReportReason = FileNotCreated]
                /\ GoSend(FileNotCreated)
           [] stat = "exists" ->
                /\ c' = [c EXCEPT !.Created = Append(@, fileIdx)]
                /\ UNCHANGED <<sends, handed>>
           [] OTHER ->
                UNCHANGED <<c, sends, handed>>
    /\ fileIdx' = fileIdx + 1
    /\ UNCHANGED <<Config, now, mainPc, child, emitted, scanner, mutex,
                   finisher, runFinished, timeout, timenotify, wg, started,
                   terminal>>

\* handler.Finished returns nil and so does Exec
FinishedReturn ==
    /\ mainPc = "files"
    /\ fileIdx > Config.Creates
    /\ mainPc' = "returned"
    /\ UNCHANGED <<Config, c, now, fileIdx, child, emitted, scanner, mutex,
                   finisher, runFinished, timeout, timenotify, sends, wg,
                   handed, started, terminal>>

\* case sig := <-signals: handler.Signal
HandlerSignal ==
    /\ mainPc = "loop"
    /\ mutex = "free"
    /\ c' = [c EXCEPT !.Finish = now, !.Duration = now - c.Start,
                      !.Killed = TRUE, !.KillReason = Signal,
                      !.ReportReason = Killed]
    /\ GoSend(Killed)
    /\ terminal' = "Signal"
    /\ mainPc' = IF SignalFails THEN "exit1" ELSE "returned"
    /\ UNCHANGED <<Config, now, fileIdx, child, emitted, scanner, mutex,
                   finisher, runFinished, timeout, timenotify, wg, started>>

\* case <-timeout: handler.Timeout
HandlerTimeout ==
    /\ mainPc = "loop"
    /\ timeout = "armed"
    /\ mutex = "free"
    /\ timeout' = "done"
    /\ c' = [c EXCEPT !.Killed = TRUE, !.KillReason = Timeout,
                      !.Finish = now, !.Duration = c.Start - now,
                      !.ReportReason = Killed]
    /\ GoSend(Killed)
    /\ terminal' = "Timeout"
    /\ child' = IF child = "running" THEN "killed" ELSE child
    /\ mainPc' = IF SignalFails THEN "exit1" ELSE "returned"
    /\ UNCHANGED <<Config, now, fileIdx, emitted, scanner, mutex, finisher,
                   runFinished, timenotify, wg, started>>

\* c.ReportReason = proto.TimeWarning; c.timeWarnSent = true
MarkTimeWarning(cmd) ==
    [cmd EXCEPT !.ReportReason = TimeWarning, !.timeWarnSent = TRUE]

\* CheckMemory that forgets to set the latch
MarkMemoryWarning_NoLatch(cmd) ==
    [cmd EXCEPT !.ReportReason = MemoryWarning]

\* c.ReportReason = proto.MemoryWarning; c.memWarnSent = true
MarkMemoryWarning(cmd) ==
    [cmd EXCEPT !.ReportReason = MemoryWarning, !.memWarnSent = TRUE]

\* case <-timenotify: handler.TimeWarning
HandlerTimeWarning ==
    /\ mainPc = "loop"
    /\ timenotify = "armed"
    /\ mutex = "free"
    /\ timenotify' = "done"
    /\ IF c.timeWarnSent
       THEN UNCHANGED <<c, sends, handed>>
       ELSE /\ c' = MarkTimeWarning(c)
            /\ GoSend(TimeWarning)
    /\ UNCHANGED <<Config, now, mainPc, fileIdx, child, emitted, scanner, mutex,
                   finisher, runFinished, timeout, wg, started, terminal>>

\* case <-profileMemory: handler.CheckMemory with one memory sample
HandlerCheckMemory ==
    /\ mainPc = "loop"
    /\ mutex = "free"
    /\ \E mem \in 0..MaxMem :
         LET c1 == IF mem > c.MaxMemory THEN [c EXCEPT !.MaxMemory = mem] ELSE c
             warn == Config.MemoryWarn > 0 /\ mem >= Config.MemoryWarn
                     /\ ~c1.memWarnSent
         IN  /\ IF warn
                THEN /\ c' = MarkMemoryWarning(c1)
                     /\ GoSend(MemoryWarning)
                ELSE /\ c' = c1
                     /\ UNCHANGED <<sends, handed>>
             /\ mainPc' = IF Config.MemoryKill > 0 /\ mem >= Config.MemoryKill
                          THEN "memkill" ELSE "loop"
    /\ UNCHANGED <<Config, now, fileIdx, child, emitted, scanner, mutex,
                   finisher, runFinished, timeout, timenotify, wg, started,
                   terminal>>

\* handler.KillOnHighMemory after CheckMemory returned an error
HandlerKillOnHighMemory ==
    /\ mainPc = "memkill"
    /\ mutex = "free"
    /\ c' = [c EXCEPT !.Killed = TRUE, !.KillReason = Memory,
                      !.Finish = now, !.Duration = now - c.Start,
                      !.ReportReason = Killed]
    /\ GoSend(Killed)
    /\ terminal' = "KillOnHighMemory"
    /\ child' = IF child = "running" THEN "killed" ELSE child
    /\ mainPc' = IF SignalFails THEN "exit1" ELSE "returned"
    /\ UNCHANGED <<Config, now, fileIdx, emitted, scanner, mutex, finisher,
                   runFinished, timeout, timenotify, wg, started>>

(***************************************************************************)
(* main after Exec: Command.Wait -> Report.Wait -> senderService.wait.     *)
(***************************************************************************)
CallWait ==
    /\ mainPc = "returned"
    /\ mainPc' = "waiting"
    /\ UNCHANGED <<Config, c, now, fileIdx, child, emitted, scanner, mutex,
                   finisher, runFinished, timeout, timenotify, sends, wg,
                   handed, started, terminal>>

\* s.wg.Wait() returns when the counter is zero; main then calls os.Exit(0)
WaitReturn ==
    /\ mainPc = "waiting"
    /\ wg = 0
    /\ mainPc' = "exit0"
    /\ UNCHANGED <<Config, c, now, fileIdx, child, emitted, scanner, mutex,
                   finisher, runFinished, timeout, timenotify, sends, wg,
                   handed, started, terminal>>

(***************************************************************************)
(* Report.Send and senderService.sendBackground, one goroutine each.       *)
(***************************************************************************)
RECURSIVE Lines(_)
Lines(matches) ==
    IF matches = <<>> THEN <<>> ELSE <<Head(matches).Line>> \o Lines(Tail(matches))

\* switch reason { ... } applied to the goroutine r: start sendBackground,
\* or close the channels and return
Gated(r, snap) ==
    IF SendGateOpen(r.reason)
    THEN /\ sends' = Replace(r, [r EXCEPT !.pc = "select", !.bg = "spawned",
                                          !.snap = snap])
         /\ started' = [started EXCEPT ![r.reason] = @ + 1]
    ELSE /\ sends' = Remove(r)
         /\ UNCHANGED started

\* c.mutex.Lock(); pb := r.sender.create(c, reason); c.mutex.Unlock().
\* Only the AlertRate case of the switch reads state that another goroutine
\* writes (c.RuleMatches); for every other reason the switch is taken in the
\* same step.  The matches of the report are kept for Alert and AlertRate.
SendCreate(r) ==
    /\ Alive
    /\ r.pc = "create"
    /\ mutex = "free"
    /\ IF r.reason = AlertRate
       THEN /\ sends' = Replace(r, [r EXCEPT !.pc = "gate",
                                             !.snap = Lines(c.RuleMatches)])
            /\ UNCHANGED started
       ELSE Gated(r, IF r.reason = Alert THEN Lines(c.RuleMatches) ELSE <<>>)
    /\ UNCHANGED <<Config, c, now, mainPc, fileIdx, child, emitted, scanner,
                   mutex, finisher, runFinished, timeout, timenotify, wg,
                   handed, terminal>>

\* case proto.AlertRate of the switch
SendGate(r) ==
    /\ Alive
    /\ r.pc = "gate"
    /\ Gated(r, r.snap)
    /\ UNCHANGED <<Config, c, now, mainPc, fileIdx, child, emitted, scanner,
                   mutex, finisher, runFinished, timeout, timenotify, wg,
                   handed, terminal>>

\* sendBackground: s.wg.Add(1); defer s.wg.Done()
BgRegister(r) ==
    /\ Alive
    /\ r.bg = "spawned"
    /\ wg' = wg + 1
    /\ sends' = Replace(r, [r EXCEPT !.bg = "running"])
    /\ UNCHANGED <<Config, c, now, mainPc, fileIdx, child, emitted, scanner,
                   mutex, finisher, runFinished, timeout, timenotify, handed,
                   started, terminal>>

\* result <- backoff.Retry(send, ...); the deferred s.wg.Done()
BgFinish(r) ==
    /\ Alive
    /\ r.bg = "running"
    /\ wg' = wg - 1
    /\ \E res \in {"nil", "err"} :
         sends' = Replace(r, [r EXCEPT !.bg = "done", !.result = res])
    /\ UNCHANGED <<Config, c, now, mainPc, fileIdx, child, emitted, scanner,
                   mutex, finisher, runFinished, timeout, timenotify, handed,
                   started, terminal>>

\* the callback cb of Send: set for Alert and AlertRate, empty otherwise
cb(r) ==
    IF r.reason \in {Alert, AlertRate} THEN [c EXCEPT !.RuleMatches = <<>>] ELSE c

\* Send that runs the callback whatever the result of the send
SendResult_CallbackOnError(r) ==
    /\ Alive
    /\ r.pc = "select"
    /\ r.result # "none"
    /\ c' = cb(r)
    /\ IF r.result = "nil"
       THEN /\ sends' = Remove(r)
            /\ UNCHANGED mainPc
       ELSE /\ mainPc' = "panic"
            /\ UNCHANGED sends
    /\ UNCHANGED <<Config, now, fileIdx, child, emitted, scanner, mutex,
                   finisher, runFinished, timeout, timenotify, wg, handed,
                   started, terminal>>

\* case err := <-result: cb() on nil; c.errors.ReportError(err) otherwise,
\* a call on the nil interface Command.errors that New leaves unset
SendResult(r) ==
    /\ Alive
    /\ r.pc = "select"
    /\ r.result # "none"
    /\ IF r.result = "nil"
       THEN /\ c' = cb(r)
            /\ sends' = Remove(r)
            /\ UNCHANGED mainPc
       ELSE /\ mainPc' = "panic"
            /\ UNCHANGED <<c, sends>>
    /\ UNCHANGED <<Config, now, fileIdx, child, emitted, scanner, mutex,
                   finisher, runFinished, timeout, timenotify, wg, handed,
                   started, terminal>>

\* case <-timeout: cancel <- true; c.errors.ReportError(...) on the nil interface
SendTimeout(r) ==
    /\ Alive
    /\ r.pc = "select"
    /\ mainPc' = "panic"
    /\ UNCHANGED <<Config, c, now, fileIdx, child, emitted, scanner, mutex,
                   finisher, runFinished, timeout, timenotify, sends, wg,
                   handed, started, terminal>>

(***************************************************************************)
(* Part II: the estimator.                                                 *)
(*                                                                         *)
(* float64 values are fixed-point integers in units of 1/Scale.  The       *)
(* non-finite results the code tests for (NaN and the infinities of        *)
(* math.Log, the 0/0 of varianceNormal on one value) are kept as the       *)
(* predicates TransformDefined and VarianceDefined.                        *)
(***************************************************************************)
Scale == 12

\* estimator states of state.go
Reset == "reset"
UCLInitial == "ucl_initial"
TestingUCL == "testing_ucl"
UCLTrip == "ucl_trip"
LCLInitial == "lcl_initial"
TestingLCL == "testing_lcl"
LCLTrip == "lcl_trip"

States == {Reset, UCLInitial, TestingUCL, UCLTrip, LCLInitial, TestingLCL, LCLTrip}

\* bounds of the estimator runs
\* Record, Transition and sample ticks in one run
MaxCalls == 6
\* largest bootstrap capacity of a series
MaxCapacity == 2
\* observations buffered in one sample window
MaxObs == 2

\* newMachine with Reset also allowed from Reset
EstimatorTransitions_SelfReset ==
    [s \in States |->
        CASE s = Reset      -> {UCLInitial, LCLInitial, Reset}
          [] s = UCLInitial -> {TestingUCL, Reset}
          [] s = TestingUCL -> {UCLTrip, Reset}
          [] s = UCLTrip    -> {LCLInitial, Reset}
          [] s = LCLInitial -> {TestingLCL, Reset}
          [] s = TestingLCL -> {LCLTrip, Reset}
          [] s = LCLTrip    -> {Reset}]

\* the transition graph of newMachine
EstimatorTransitions ==
    [s \in States |->
        CASE s = Reset      -> {UCLInitial, LCLInitial}
          [] s = UCLInitial -> {TestingUCL, Reset}
          [] s = TestingUCL -> {UCLTrip, Reset}
          [] s = UCLTrip    -> {LCLInitial, Reset}
          [] s = LCLInitial -> {TestingLCL, Reset}
          [] s = TestingLCL -> {LCLTrip, Reset}
          [] s = LCLTrip    -> {Reset}]

\* fsm.NewMachine(initial, fsm.WithTransitions(...))
newMachine(initial) ==
    [current |-> initial, initial |-> initial, stopOnError |-> FALSE,
     stopped |-> FALSE]

\* Machine.Allowable allowing every transition
Allowable_Any(from, to) == TRUE

\* Machine.Allowable
Allowable(from, to) == to \in allowable[from]

\* stoppable.ok never stopping
StoppableOk_Never(m) == TRUE

\* stoppable.ok
StoppableOk(m) == ~(m.stopOnError /\ m.stopped)

\* Machine.Transition -> Machine.transition(to, m.stoppable): the machine
\* after the call and the error returned
MachineTransition(m, to) ==
    IF ~StoppableOk(m)
    THEN [m |-> [m EXCEPT !.stopped = TRUE], err |-> "StopError"]
    ELSE IF Allowable(m.current, to)
    THEN [m |-> [m EXCEPT !.current = to], err |-> "nil"]
    ELSE [m |-> [m EXCEPT !.stopped = TRUE], err |-> "TransitionNotAllowed"]

(***************************************************************************)
(* metric.Series and metric.SampledSeries.                                 *)
(***************************************************************************)
\* NewSeries(cap); sampled is TRUE for the SampledSeries wrapper
NewSeries(cap, sampled) ==
    [count |-> 0, values |-> [i \in 1..cap |-> 0], sampled |-> sampled,
     obs |-> <<>>]

\* Series.nextIndex (0-based)
nextIndex(s) == IF Len(s.values) = 0 THEN 0 ELSE s.count % Len(s.values)

\* Series.Record on the ring
RingRecord(s, p) ==
    IF Len(s.values) = 0 THEN s
    ELSE [s EXCEPT !.values[nextIndex(s) + 1] = p, !.count = @ + 1]

\* SeriesRecorder.Record: Series.Record, or SampledSeries.Record which
\* buffers the observation for the next tick
SeriesRecord(s, p) ==
    IF s.sampled THEN [s EXCEPT !.obs = Append(@, p)] ELSE RingRecord(s, p)

\* Values that returns the ring as it lies in memory
SeriesValues_Unrotated(s) == s.values

\* Series.Values: a copy of the ring, oldest first once it is full
SeriesValues(s) ==
    IF s.count < Len(s.values) THEN s.values
    ELSE SubSeq(s.values, nextIndex(s) + 1, Len(s.values))
         \o SubSeq(s.values, 1, nextIndex(s))

\* Series.Count
SeriesCount(s) == s.count

\* SeriesRecorder.Capacity
SeriesCapacity(s) == Len(s.values)

\* SeriesRecorder.Reset: empties the series
SeriesReset(s) ==
    [s EXCEPT !.count = 0, !.values = [i \in 1..Len(s.values) |-> 0],
              !.obs = <<>>]

RECURSIVE SampleSum(_)
SampleSum(obs) == IF obs = <<>> THEN 0 ELSE Head(obs) + SampleSum(Tail(obs))

\* a tick that samples the observations and keeps them
SampledTick_Keep(s) ==
    IF Len(s.obs) = 0 THEN RingRecord(s, 0)
    ELSE RingRecord(s, SampleSum(s.obs))

\* the ticker goroutine of NewSampledSeries, one tick
SampledTick(s) ==
    IF Len(s.obs) = 0 THEN RingRecord(s, 0)
    ELSE [RingRecord(s, SampleSum(s.obs)) EXCEPT !.obs = <<>>]

(***************************************************************************)
(* PDF: LogNormal and Poisson.                                             *)
(***************************************************************************)
\* raw observations: e^x written [kind |-> "exp", x |-> x], the number x
\* written [kind |-> "num", x |-> x], and NaN
LnValues == {-24, 2, 4, 12}
Counts == {0, 4, 36}

RawObs(pdf) ==
    IF pdf = "log-normal"
    THEN [kind : {"exp"}, x : LnValues] \cup [kind : {"num"}, x : {-1, 0, 1}]
    ELSE [kind : {"num"}, x : Counts] \cup {[kind |-> "nan", x |-> 0]}

\* the result of pdf.Transform is neither NaN nor an infinity: math.Log is
\* -Inf at 0 and NaN below 0
TransformDefined(pdf, raw) ==
    IF pdf = "log-normal"
    THEN raw.kind = "exp" \/ (raw.kind = "num" /\ raw.x > 0)
    ELSE raw.kind = "num"

\* pdf.Transform: math.Log for LogNormal (ln e^x = x, ln 1 = 0), the
\* identity for Poisson
Transform(pdf, raw) ==
    IF pdf = "log-normal"
    THEN (IF raw.kind = "exp" THEN raw.x * Scale ELSE 0)
    ELSE raw.x * Scale

RECURSIVE SumSeq(_)
SumSeq(v) == IF v = <<>> THEN 0 ELSE Head(v) + SumSeq(Tail(v))

\* meanNormal, and meanPoisson which calls it
meanNormal(values) ==
    IF Len(values) = 0 THEN 0 ELSE SumSeq(values) \div Len(values)

RECURSIVE SumSquares(_, _)
SumSquares(v, mean) ==
    IF v = <<>> THEN 0
    ELSE (Head(v) - mean) * (Head(v) - mean) + SumSquares(Tail(v), mean)

\* varianceNormal divides by len(values)-1: 0/0 is NaN for one value
VarianceDefined(pdf, values) == pdf = "poisson" \/ Len(values) > 1

\* pdf.Variance: varianceNormal, or variancePoisson which returns the mean
Variance(pdf, values, mean) ==
    IF pdf = "poisson" THEN mean
    ELSE IF Len(values) > 1
    THEN SumSquares(values, mean) \div (Scale * (Len(values) - 1))
    ELSE 0

(***************************************************************************)
(* K and the control limit.                                                *)
(***************************************************************************)
\* X1, X2 of the least squares regression, in units of 1/Scale
X1 == 204
X2 == -46
\* the k used when K.Calculate fails (5.7)
FallbackK == 68
\* math.Log(k.e) is finite (it is -Inf at 0)
LogDefined(e) == e = "0.05"

\* math.Log(k.e) in units of 1/Scale: ln 0.05 = -2.9957
Log(e) == IF e = "0.05" THEN -36 ELSE 0

\* K.Calculate: (math.Log(k.e) - X1) / X2, an error when that is not finite
KCalculate(e) ==
    IF LogDefined(e) THEN [k |-> ((Log(e) - X1) * Scale) \div X2, err |-> FALSE]
    ELSE [k |-> 0, err |-> TRUE]

RECURSIVE SqrtBetween(_, _, _)
SqrtBetween(x, lo, hi) ==
    IF lo >= hi THEN lo
    ELSE LET mid == (lo + hi + 1) \div 2
         IN  IF mid * mid <= x THEN SqrtBetween(x, mid, hi)
             ELSE SqrtBetween(x, lo, mid - 1)

\* math.Sqrt of a value in units of 1/Scale
Sqrt(x) == IF x <= 0 THEN 0 ELSE SqrtBetween(x * Scale, 0, x * Scale)

\* calculateLimit
calculateLimit(mean, variance, lambda, e, direction) ==
    LET estimatorVariance == (lambda * variance) \div (2 * Scale - lambda)
        kr == KCalculate(e)
        kc == IF kr.err THEN FallbackK ELSE kr.k
        delta == (kc * Sqrt(estimatorVariance)) \div Scale
    IN  IF direction >= 0 THEN mean + delta ELSE mean - delta

(***************************************************************************)
(* stat.TestStatistic.                                                     *)
(***************************************************************************)
\* the statistics explored, each a lambda (in units of 1/Scale) and a type I
\* error probability: an EWMA (0.25) with error 0.05, a Shewhart (1.0) with
\* error 0, for which K.Calculate fails
Statistics == {<<3, "0.05">>, <<12, "0">>}

\* NewEWMATestStatistic(name, lambda, type1Error, pdf)
NewEWMATestStatistic(lambda, type1Error, pdf, capacity) ==
    [lambda |-> lambda, k |-> type1Error, limit |-> 0,
     series |-> NewSeries(capacity, pdf = "poisson"),
     fsm |-> newMachine(UCLInitial), current |-> 0, pdf |-> pdf]

\* TestStatistic.calculateCurrent
calculateCurrent(e, o) ==
    (e.lambda * o + (Scale - e.lambda) * e.current) \div Scale

\* the cases TestingUCL (direction 1) and TestingLCL (direction -1) of Record
Testing(e, o, direction) ==
    LET cur == calculateCurrent(e, o)
        e1 == [e EXCEPT !.current = cur]
        trip == IF direction >= 0 THEN cur >= e.limit ELSE cur <= e.limit
        t == MachineTransition(e.fsm, IF direction >= 0 THEN UCLTrip ELSE LCLTrip)
    IN  IF trip THEN [e |-> [e1 EXCEPT !.fsm = t.m], err |-> t.err]
        ELSE [e |-> e1, err |-> "nil"]

\* the bootstrap test without the comparison of Count with Capacity
BootstrapReady_AnyCount(e) ==
    LET values == SeriesValues(e.series)
        mean == meanNormal(values)
    IN  /\ mean > 0
        /\ VarianceDefined(e.pdf, values)
        /\ Variance(e.pdf, values, mean) > 0

\* the bootstrap test of the cases UCLInitial and LCLInitial
BootstrapReady(e) ==
    /\ SeriesCount(e.series) >= SeriesCapacity(e.series)
    /\ LET values == SeriesValues(e.series)
           mean == meanNormal(values)
       IN  /\ mean > 0
           /\ VarianceDefined(e.pdf, values)
           /\ Variance(e.pdf, values, mean) > 0

\* the cases UCLInitial (direction 1) and LCLInitial (direction -1) of Record
Initial(e, direction) ==
    IF BootstrapReady(e)
    THEN LET values == SeriesValues(e.series)
             mean == meanNormal(values)
             variance == Variance(e.pdf, values, mean)
             t == MachineTransition(e.fsm, IF direction >= 0 THEN TestingUCL
                                           ELSE TestingLCL)
         IN  IF t.err # "nil" THEN [e |-> [e EXCEPT !.fsm = t.m], err |-> t.err]
             ELSE [e |-> [e EXCEPT !.fsm = t.m, !.current = mean,
                                   !.limit = calculateLimit(mean, variance,
                                                 e.lambda, e.k, direction)],
                   err |-> "nil"]
    ELSE [e |-> e, err |-> "nil"]

\* the case Reset of Record, which falls through to the case TestingUCL
ResetCase(e, o) ==
    LET t == MachineTransition(e.fsm, UCLInitial)
        e1 == [e EXCEPT !.fsm = t.m]
        e2 == IF SeriesCount(e1.series) > 0
              THEN [e1 EXCEPT !.series = SeriesRecord(SeriesReset(@), o)]
              ELSE e1
    IN  IF t.err # "nil" THEN [e |-> e1, err |-> t.err]
        ELSE Testing(e2, o, 1)

\* Record with a case for the tripped states that re-arms the estimator
Record_RearmOnTrip(e, raw) ==
    IF ~TransformDefined(e.pdf, raw)
    THEN [e |-> e, err |-> "undefined"]
    ELSE LET o == Transform(e.pdf, raw)
             e1 == [e EXCEPT !.series = SeriesRecord(@, o)]
             st == e.fsm.current
             t == MachineTransition(e1.fsm, Reset)
         IN  CASE st = Reset      -> ResetCase(e1, o)
               [] st = TestingUCL -> Testing(e1, o, 1)
               [] st = TestingLCL -> Testing(e1, o, -1)
               [] st = UCLInitial -> Initial(e1, 1)
               [] st = LCLInitial -> Initial(e1, -1)
               [] OTHER           -> [e |-> [e1 EXCEPT !.fsm = t.m], err |-> t.err]

\* TestStatistic.Record: the statistic after the call and the error returned
Record(e, raw) ==
    IF ~TransformDefined(e.pdf, raw)
    THEN [e |-> e, err |-> "undefined"]
    ELSE LET o == Transform(e.pdf, raw)
             e1 == [e EXCEPT !.series = SeriesRecord(@, o)]
             st == e.fsm.current
         IN  CASE st = Reset      -> ResetCase(e1, o)
               [] st = TestingUCL -> Testing(e1, o, 1)
               [] st = TestingLCL -> Testing(e1, o, -1)
               [] st = UCLInitial -> Initial(e1, 1)
               [] st = LCLInitial -> Initial(e1, -1)
               [] OTHER           -> [e |-> e1, err |-> "nil"]

\* TestStatistic.HasAlarmed
HasAlarmed(e) == e.fsm.current \in {UCLTrip, LCLTrip}

\* TestStatistic.Transition(state, resetSeries)
Transition(e, state, resetSeries) ==
    LET e1 == IF resetSeries THEN [e EXCEPT !.series = SeriesReset(@)] ELSE e
        t == MachineTransition(e1.fsm, state)
    IN  [e |-> [e1 EXCEPT !.fsm = t.m], err |-> t.err]

(***************************************************************************)
(* Runs of one test statistic.                                             *)
(***************************************************************************)
NoOp == [op |-> "none", from |-> Reset, to |-> Reset, err |-> "nil"]

\* the supervisor while the estimator runs are explored
IdleSup ==
    /\ Config = DefaultConfig
    /\ c = NewCommand
    /\ now = 0
    /\ mainPc = "idle"
    /\ InitCommon

InitStat ==
    /\ \E st \in Statistics, pdf \in {"log-normal", "poisson"},
          capacity \in 1..MaxCapacity :
         estimator = NewEWMATestStatistic(st[1], st[2], pdf, capacity)
    /\ calls = 0
    /\ lastOp = NoOp
    /\ allowable = EstimatorTransitions
    /\ IdleSup
    /\ IdleExt

\* e.Record(raw)
StatRecord ==
    /\ calls < MaxCalls
    /\ Len(estimator.series.obs) < MaxObs
    /\ \E raw \in RawObs(estimator.pdf) :
         LET r == Record(estimator, raw)
         IN  /\ estimator' = r.e
             /\ lastOp' = [op |-> "Record", from |-> estimator.fsm.current,
                           to |-> estimator.fsm.current, err |-> r.err]
    /\ calls' = calls + 1
    /\ UNCHANGED allowable

\* e.Transition(state, resetSeries)
StatTransition ==
    /\ calls < MaxCalls
    /\ \E state \in States, resetSeries \in BOOLEAN :
         LET r == Transition(estimator, state, resetSeries)
         IN  /\ estimator' = r.e
             /\ lastOp' = [op |-> "Transition", from |-> estimator.fsm.current,
                           to |-> state, err |-> r.err]
    /\ calls' = calls + 1
    /\ UNCHANGED allowable

\* the ticker of the sampled series of a Poisson statistic fires
StatTick ==
    /\ calls < MaxCalls
    /\ estimator.series.sampled
    /\ estimator' = [estimator EXCEPT !.series = SampledTick(@)]
    /\ lastOp' = [op |-> "Tick", from |-> estimator.fsm.current,
                  to |-> estimator.fsm.current, err |-> "nil"]
    /\ calls' = calls + 1
    /\ UNCHANGED allowable

NextStat ==
    \/ StatRecord /\ UNCHANGED <<supVars, extVars>>
    \/ StatTransition /\ UNCHANGED <<supVars, extVars>>
    \/ StatTick /\ UNCHANGED <<supVars, extVars>>

\* the estimator while the supervisor runs are explored
IdleStat ==
    /\ estimator = NewEWMATestStatistic(12, "0.05", "log-normal", 1)
    /\ calls = 0
    /\ lastOp = NoOp
    /\ allowable = EstimatorTransitions

(***************************************************************************)
(* The supervised run.                                                     *)
(***************************************************************************)
InitSup ==
    /\ Config \in ConfigSpace
    /\ c = NewCommand
    /\ now = 0
    /\ mainPc = "new"
    /\ InitCommon
    /\ IdleStat
    /\ IdleExt

NextSup ==
    \/ ExecStart /\ UNCHANGED <<statVars, extVars>>
    \/ ChildExit /\ UNCHANGED <<statVars, extVars>>
    \/ (\E s \in Streams : ScanLine(s)) /\ UNCHANGED <<statVars, extVars>>
    \/ (\E s \in Streams : AppendMatches(s)) /\ UNCHANGED <<statVars, extVars>>
    \/ (\E s \in Streams : AlertAndHistory(s)) /\ UNCHANGED <<statVars, extVars>>
    \/ (\E s \in Streams : ScanEOF(s)) /\ UNCHANGED <<statVars, extVars>>
    \/ FinisherReap /\ UNCHANGED <<statVars, extVars>>
    \/ FinisherNotify /\ UNCHANGED <<statVars, extVars>>
    \/ HandlerFinished /\ UNCHANGED <<statVars, extVars>>
    \/ FinishedStatus /\ UNCHANGED <<statVars, extVars>>
    \/ handleFileCreation /\ UNCHANGED <<statVars, extVars>>
    \/ FinishedReturn /\ UNCHANGED <<statVars, extVars>>
    \/ HandlerSignal /\ UNCHANGED <<statVars, extVars>>
    \/ HandlerTimeout /\ UNCHANGED <<statVars, extVars>>
    \/ HandlerTimeWarning /\ UNCHANGED <<statVars, extVars>>
    \/ HandlerCheckMemory /\ UNCHANGED <<statVars, extVars>>
    \/ HandlerKillOnHighMemory /\ UNCHANGED <<statVars, extVars>>
    \/ CallWait /\ UNCHANGED <<statVars, extVars>>
    \/ WaitReturn /\ UNCHANGED <<statVars, extVars>>
    \/ (\E r \in BagToSet(sends) : SendCreate(r)) /\ UNCHANGED <<statVars, extVars>>
    \/ (\E r \in BagToSet(sends) : SendGate(r)) /\ UNCHANGED <<statVars, extVars>>
    \/ (\E r \in BagToSet(sends) : BgRegister(r)) /\ UNCHANGED <<statVars, extVars>>
    \/ (\E r \in BagToSet(sends) : BgFinish(r)) /\ UNCHANGED <<statVars, extVars>>
    \/ (\E r \in BagToSet(sends) : SendResult(r)) /\ UNCHANGED <<statVars, extVars>>
    \/ (\E r \in BagToSet(sends) : SendTimeout(r)) /\ UNCHANGED <<statVars, extVars>>

SpecSup == InitSup /\ [][NextSup]_vars

SpecStat == InitStat /\ [][NextStat]_vars

(***************************************************************************)
(* The supervised run of a command with warning thresholds and no rules:   *)
(* no line of output raises an alert.                                      *)
(***************************************************************************)
WarnProfiles ==
    {{<<"MemoryWarn", 1>>},
     {<<"MemoryWarn", 1>>, <<"MemoryKill", 1>>},
     {<<"NotifyTimeout", 1>>},
     {<<"MemoryWarn", 1>>, <<"NotifyTimeout", 1>>},
     {<<"KillTimeout", 1>>, <<"NotifyTimeout", 1>>}}

InitWarn ==
    /\ Config \in {ApplyOptions(DefaultConfig, os) : os \in WarnProfiles}
    /\ c = NewCommand
    /\ now = 0
    /\ mainPc = "new"
    /\ InitCommon
    /\ IdleStat
    /\ IdleExt

NextWarn ==
    \/ ExecStart /\ UNCHANGED <<statVars, extVars>>
    \/ ChildExit /\ UNCHANGED <<statVars, extVars>>
    \/ (\E s \in Streams : ScanLine(s)) /\ UNCHANGED <<statVars, extVars>>
    \/ (\E s \in Streams : AlertAndHistory(s)) /\ UNCHANGED <<statVars, extVars>>
    \/ (\E s \in Streams : ScanEOF(s)) /\ UNCHANGED <<statVars, extVars>>
    \/ FinisherReap /\ UNCHANGED <<statVars, extVars>>
    \/ FinisherNotify /\ UNCHANGED <<statVars, extVars>>
    \/ HandlerFinished /\ UNCHANGED <<statVars, extVars>>
    \/ FinishedStatus /\ UNCHANGED <<statVars, extVars>>
    \/ FinishedReturn /\ UNCHANGED <<statVars, extVars>>
    \/ HandlerSignal /\ UNCHANGED <<statVars, extVars>>
    \/ HandlerTimeout /\ UNCHANGED <<statVars, extVars>>
    \/ HandlerTimeWarning /\ UNCHANGED <<statVars, extVars>>
    \/ HandlerCheckMemory /\ UNCHANGED <<statVars, extVars>>
    \/ HandlerKillOnHighMemory /\ UNCHANGED <<statVars, extVars>>
    \/ CallWait /\ UNCHANGED <<statVars, extVars>>
    \/ WaitReturn /\ UNCHANGED <<statVars, extVars>>
    \/ (\E r \in BagToSet(sends) : SendCreate(r)) /\ UNCHANGED <<statVars, extVars>>
    \/ (\E r \in BagToSet(sends) : BgRegister(r)) /\ UNCHANGED <<statVars, extVars>>
    \/ (\E r \in BagToSet(sends) : BgFinish(r)) /\ UNCHANGED <<statVars, extVars>>
    \/ (\E r \in BagToSet(sends) : SendResult(r)) /\ UNCHANGED <<statVars, extVars>>
    \/ (\E r \in BagToSet(sends) : SendTimeout(r)) /\ UNCHANGED <<statVars, extVars>>

SpecWarn == InitWarn /\ [][NextWarn]_vars

(***************************************************************************)
(* Report.Send called directly, as TestReportCreation does: on a command   *)
(* in any state of its latches and rule matches, for any reason value.     *)
(***************************************************************************)
\* the rule matches a command can hold at time t, oldest first
MatchLists(t) ==
    UNION {{[i \in 1..n |-> [Time |-> f[i], Line |-> i]] :
              f \in {g \in [1..n -> 0..t] :
                       \A i \in 1..n - 1 : g[i] <= g[i + 1]}} :
           n \in 0..MaxMatches}

\* every combination of the notification flags, and every rate rule
SendConfigs ==
    {[DefaultConfig EXCEPT !.NotifyOnSuccess = s, !.NotifyOnFailure = f,
                           !.Daemon = d] :
        s \in BOOLEAN, f \in BOOLEAN, d \in BOOLEAN}
    \cup {[DefaultConfig EXCEPT !.Rules = 1, !.RuleQuantity = q,
                                !.RulePeriod = p] :
            q \in 1..MaxMatches, p \in 0..1}

InitSend ==
    /\ Config \in SendConfigs
    /\ now \in 0..MaxTime
    /\ \E m \in BOOLEAN, t \in BOOLEAN, ms \in MatchLists(now) :
         c = [NewCommand EXCEPT !.memWarnSent = m, !.timeWarnSent = t,
                                !.RuleMatches = ms]
    /\ mainPc = "api"
    /\ InitCommon
    /\ IdleStat
    /\ IdleExt

\* go r.Send(c, reason) once the previous call has returned
CallSend ==
    /\ mainPc = "api"
    /\ sends = EmptyBag
    /\ SumOver(handed, ReasonValues) < MaxSends
    /\ \E reason \in ReasonValues : GoSend(reason)
    /\ UNCHANGED <<Config, c, now, mainPc, fileIdx, child, emitted, scanner,
                   mutex, finisher, runFinished, timeout, timenotify, wg,
                   started, terminal>>

NextSend ==
    \/ CallSend /\ UNCHANGED <<statVars, extVars>>
    \/ Tick /\ UNCHANGED <<statVars, extVars>>
    \/ (\E r \in BagToSet(sends) : SendCreate(r)) /\ UNCHANGED <<statVars, extVars>>
    \/ (\E r \in BagToSet(sends) : SendGate(r)) /\ UNCHANGED <<statVars, extVars>>
    \/ (\E r \in BagToSet(sends) : BgRegister(r)) /\ UNCHANGED <<statVars, extVars>>
    \/ (\E r \in BagToSet(sends) : BgFinish(r)) /\ UNCHANGED <<statVars, extVars>>
    \/ (\E r \in BagToSet(sends) : SendResult(r)) /\ UNCHANGED <<statVars, extVars>>
    \/ (\E r \in BagToSet(sends) : SendTimeout(r)) /\ UNCHANGED <<statVars, extVars>>

SpecSend == InitSend /\ [][NextSend]_vars


(***************************************************************************)
(* Properties of the supervised run (SpecSup, SpecWarn).                   *)
(***************************************************************************)
\* the terminal handler has run and Exec has returned
ExecConcluded ==
    terminal # "none" /\ mainPc \in {"returned", "waiting", "exit0", "exit1"}

\* C1: once a run has gone through a terminal handler and Exec has
\* returned, exactly one report with a reason in {Success, Failure, Killed,
\* FileNotCreated} has been handed to the report dispatcher.
C1_ExactlyOneTerminalReport ==
    ExecConcluded => SumOver(handed, TerminalReasons) = 1

\* C2: for each of MemoryWarning and TimeWarning at most one background
\* send is started during one run.
C2_AtMostOneWarningSend ==
    \A w \in {MemoryWarning, TimeWarning} : started[w] <= 1

\* both warnings were raised in one run, the Send of each has returned, and
\* memory was sampled above the threshold with the latch set
C2_Witness ==
    /\ handed[MemoryWarning] = 1
    /\ handed[TimeWarning] = 1
    /\ c.timeWarnSent
    /\ c.memWarnSent
    /\ c.ReportReason = MemoryWarning
    /\ c.MaxMemory >= Config.MemoryWarn
    /\ sends = EmptyBag

\* C3: when a warning handler found its latch unset and handed the warning
\* to the dispatcher, the gate of Send passes: once that Send has taken its
\* decision, a background send of the warning has been started.
C3_FirstWarningDispatched ==
    \A w \in {MemoryWarning, TimeWarning} :
        (handed[w] > 0 /\ \A r \in BagToSet(sends) : r.reason = w => r.pc # "create")
            => started[w] > 0

\* C4: a step that empties a non-empty c.RuleMatches is taken only with the
\* background send of an Alert or AlertRate report finished with a nil
\* error; no other step (an error result, the timeout, a rejecting gate)
\* empties it.
C4_ClearedOnlyOnSuccess ==
    [][(c.RuleMatches # <<>> /\ c'.RuleMatches = <<>>)
         => \E r \in BagToSet(sends) :
               /\ r.reason \in {Alert, AlertRate}
               /\ r.pc = "select"
               /\ r.bg = "done"
               /\ r.result = "nil"
               /\ sends' = Remove(r)]_vars

\* an Alert was dispatched for a rule match, every Send has returned
\* normally, and the matches are gone
C4_Witness ==
    /\ Alive
    /\ started[Alert] > 0
    /\ sends = EmptyBag
    /\ c.RuleMatches = <<>>
    /\ \E s \in Streams : scanner[s].pc = "eof"

\* C5: when a background send of a terminal report has been started, both
\* scanner goroutines have reached the end of their stream.
C5_TerminalAfterScanners ==
    SumOver(started, TerminalReasons) > 0 => ScannersDone

\* C6: when Wait has returned, no Send that a handler or a scanner started
\* before Wait was called is still running or still unregistered.
C6_WaitCoversEarlierSends ==
    mainPc = "exit0" => \A r \in BagToSet(sends) : ~r.early

(***************************************************************************)
(* Properties of Report.Send (SpecSend).                                   *)
(***************************************************************************)
\* the policy table of the dispatcher
PolicyGate(reason) ==
    CASE reason = Success       -> Config.NotifyOnSuccess
      [] reason = Failure       -> Config.NotifyOnFailure
      [] reason \in {Killed, FileNotCreated, Alert} -> TRUE
      [] reason = AlertRate     ->
            Cardinality({i \in 1..Len(c.RuleMatches) :
                            \/ Config.RulePeriod = 0
                            \/ now - c.RuleMatches[i].Time <= Config.RulePeriod})
                >= Config.RuleQuantity
      [] reason = MemoryWarning -> ~c.memWarnSent
      [] reason = TimeWarning   -> ~c.timeWarnSent
      [] reason = Start         -> Config.Daemon
      [] OTHER                  -> FALSE

\* the goroutine r is about to take the switch of Send
AtSwitch(r) == r.pc = "gate" \/ (r.pc = "create" /\ r.reason # AlertRate)

\* C7: the step in which Send(c, reason) takes its switch starts one
\* background send if the gate of the reason holds in the policy table, and
\* starts none otherwise.
C7_SendFollowsPolicy ==
    [][\A r \in BagToSet(sends) :
          (AtSwitch(r) /\ r \notin DOMAIN sends')
            => started' = [started EXCEPT ![r.reason] =
                              IF PolicyGate(r.reason) THEN @ + 1 ELSE @]]_vars

\* a rate alert passed the gate of a rule with a period while only one of
\* the two matches of the command lay inside the period
C7_Witness ==
    /\ started[AlertRate] = 1
    /\ Config.RulePeriod = 1
    /\ Config.RuleQuantity = 1
    /\ Len(c.RuleMatches) = 2
    /\ now - c.RuleMatches[1].Time > 1
    /\ now - c.RuleMatches[2].Time <= 1

(***************************************************************************)
(* Properties of the test statistic (SpecStat).                            *)
(***************************************************************************)
\* C8: while HasAlarmed is true, a step that is not an explicit Transition
\* call (a Record with any observation, a sample tick) leaves the state of
\* the machine as it is, so HasAlarmed stays true.
C8_AlarmSurvivesRecord ==
    [][(HasAlarmed(estimator) /\ lastOp'.op # "Transition")
         => /\ estimator'.fsm.current = estimator.fsm.current
            /\ HasAlarmed(estimator')]_vars

\* Record returned without error on a statistic that had alarmed
C8_Witness ==
    /\ lastOp.op = "Record"
    /\ lastOp.err = "nil"
    /\ lastOp.from = LCLTrip
    /\ HasAlarmed(estimator)

\* the series holds at least Capacity values
Filled(e) == e.series.count >= Len(e.series.values)

\* the maximum likelihood mean of the values is strictly positive
MeanPositive(e) == SumSeq(SeriesValues(e.series)) > 0

\* the maximum likelihood variance of the values is strictly positive: for
\* LogNormal two of the values differ, for Poisson the mean is positive
VariancePositive(e) ==
    IF e.pdf = "poisson" THEN MeanPositive(e)
    ELSE \E i, j \in 1..Len(e.series.values) :
            e.series.values[i] # e.series.values[j]

\* C9: a Record that enters TestingUCL or TestingLCL, or that changes the
\* limit, starts in the Initial state of that side with the series filled to
\* capacity and the mean and the variance of its values strictly positive;
\* a Record in an Initial state without all of that leaves the limit and
\* the state as they are.
C9_LimitOnlyAfterBootstrap ==
    [][lastOp'.op = "Record" =>
         LET from == estimator.fsm.current
             to == estimator'.fsm.current
             ready == /\ Filled(estimator')
                      /\ MeanPositive(estimator')
                      /\ VariancePositive(estimator')
         IN  /\ (to = TestingUCL /\ from # to) => (from = UCLInitial /\ ready)
             /\ (to = TestingLCL /\ from # to) => (from = LCLInitial /\ ready)
             /\ estimator'.limit # estimator.limit
                  => (from \in {UCLInitial, LCLInitial} /\ ready)
             /\ (from \in {UCLInitial, LCLInitial} /\ ~ready)
                  => (to = from /\ estimator'.limit = estimator.limit)]_vars

\* a Record on a filled series of a two-value bootstrap moved the statistic
\* from LCLInitial to TestingLCL and set a limit
C9_Witness ==
    /\ lastOp.op = "Record"
    /\ lastOp.from = LCLInitial
    /\ estimator.fsm.current = TestingLCL
    /\ Len(estimator.series.values) = 2
    /\ estimator.limit # 0

\* the edges as the specification lists them
ClaimedEdges ==
    {<<s, Reset>> : s \in States}
    \cup {<<UCLInitial, TestingUCL>>, <<TestingUCL, UCLTrip>>,
          <<UCLTrip, LCLInitial>>, <<LCLInitial, TestingLCL>>,
          <<TestingLCL, LCLTrip>>, <<Reset, UCLInitial>>}

\* C10 as stated: a Transition call succeeds exactly on Reset from any
\* state, Reset included, on the edges of the cycle and on Reset ->
\* UCLInitial.
C10_ClaimedEdges ==
    lastOp.op = "Transition"
        => (lastOp.err = "nil" <=> <<lastOp.from, lastOp.to>> \in ClaimedEdges)

\* C10: a Transition call succeeds exactly on Reset from any state other
\* than Reset, on the edges of the cycle UCLInitial -> TestingUCL -> UCLTrip
\* -> LCLInitial -> TestingLCL -> LCLTrip, on Reset -> UCLInitial and on
\* Reset -> LCLInitial.
C10_EdgesOfNewMachine ==
    lastOp.op = "Transition"
        => (lastOp.err = "nil"
              <=> <<lastOp.from, lastOp.to>> \in
                    (ClaimedEdges \ {<<Reset, Reset>>}) \cup {<<Reset, LCLInitial>>})

\* a Transition from Reset to LCLInitial succeeded
C10_Witness ==
    /\ lastOp.op = "Transition"
    /\ lastOp.from = Reset
    /\ lastOp.to = LCLInitial
    /\ lastOp.err = "nil"
    /\ estimator.fsm.current = LCLInitial


(***************************************************************************)
(* Part III - the composite test (stat.Test, stat.PoissonTest): a list of  *)
(* test statistics behind one Record / Transition / HasAlarmed / State.    *)
(***************************************************************************)
MaxTestCalls == 3

\* the loop of Test.Record from statistic i on: the list after the loop, the
\* error returned, and n, the number of statistics whose Record was called
RECURSIVE RecordFrom(_, _, _)
RecordFrom(sub, i, raw) ==
    IF i > Len(sub) THEN [sub |-> sub, err |-> "nil", n |-> Len(sub)]
    ELSE LET r == Record(sub[i], raw)
         IN  IF r.err # "nil"
             THEN [sub |-> [sub EXCEPT ![i] = r.e], err |-> r.err, n |-> i]
             ELSE RecordFrom([sub EXCEPT ![i] = r.e], i + 1, raw)

\* Test.Record, PoissonTest.Record
TestRecord(sub, raw) == RecordFrom(sub, 1, raw)

\* the loop of Test.Transition from statistic i on
RECURSIVE TransitionFrom(_, _, _, _)
TransitionFrom(sub, i, state, resetSeries) ==
    IF i > Len(sub) THEN [sub |-> sub, err |-> "nil", n |-> Len(sub)]
    ELSE LET r == Transition(sub[i], state, resetSeries)
         IN  IF r.err # "nil"
             THEN [sub |-> [sub EXCEPT ![i] = r.e], err |-> r.err, n |-> i]
             ELSE TransitionFrom([sub EXCEPT ![i] = r.e], i + 1, state,
                                 resetSeries)

\* Test.Transition, PoissonTest.Transition
TestTransition(sub, state, resetSeries) ==
    TransitionFrom(sub, 1, state, resetSeries)

\* Test.HasAlarmed, PoissonTest.HasAlarmed
TestHasAlarmed(sub) == \E i \in 1..Len(sub) : HasAlarmed(sub[i])

\* Test.State, PoissonTest.State
TestState(sub) == [i \in 1..Len(sub) |-> sub[i].fsm.current]

\* NewPoissonTest / NewLogNormalTest without options: an EWMA and a Shewhart
\* statistic over the same distribution
NewTest(pdf, capacity) ==
    <<NewEWMATestStatistic(3, "0.05", pdf, capacity),
      NewEWMATestStatistic(12, "0", pdf, capacity)>>

InitTest ==
    /\ \E pdf \in {"log-normal", "poisson"}, capacity \in 1..MaxCapacity :
         test = NewTest(pdf, capacity)
    /\ offered = <<<<>>, <<>>>>
    /\ testCalls = 0
    /\ testOp = [op |-> "none", err |-> "nil", n |-> 0]
    /\ IdleSup
    /\ IdleStat
    /\ IdleBus
    /\ IdleFsm
    /\ IdleTail

\* t.Record(raw)
CompositeRecord ==
    /\ testCalls < MaxTestCalls
    /\ \A i \in 1..Len(test) : Len(test[i].series.obs) < MaxObs
    /\ \E raw \in RawObs(test[1].pdf) :
         LET r == TestRecord(test, raw)
         IN  /\ test' = r.sub
             /\ offered' = [i \in 1..Len(test) |->
                              IF i <= r.n THEN Append(offered[i], raw)
                              ELSE offered[i]]
             /\ testOp' = [op |-> "Record", err |-> r.err, n |-> r.n]
    /\ testCalls' = testCalls + 1

\* t.Transition(state, resetSeries)
CompositeTransition ==
    /\ testCalls < MaxTestCalls
    /\ \E state \in States, resetSeries \in BOOLEAN :
         LET r == TestTransition(test, state, resetSeries)
         IN  /\ test' = r.sub
             /\ testOp' = [op |-> "Transition", err |-> r.err, n |-> r.n]
    /\ testCalls' = testCalls + 1
    /\ UNCHANGED offered

\* the ticker of the sampled series of statistic i fires
CompositeTick(i) ==
    /\ testCalls < MaxTestCalls
    /\ test[i].series.sampled
    /\ test' = [test EXCEPT ![i].series = SampledTick(@)]
    /\ testOp' = [op |-> "Tick", err |-> "nil", n |-> i]
    /\ testCalls' = testCalls + 1
    /\ UNCHANGED offered

NextTest ==
    \/ CompositeRecord /\ UNCHANGED <<supVars, statVars, busVars, fsmVars, tailVars>>
    \/ CompositeTransition /\ UNCHANGED <<supVars, statVars, busVars, fsmVars, tailVars>>
    \/ (\E i \in 1..Len(test) : CompositeTick(i))
         /\ UNCHANGED <<supVars, statVars, busVars, fsmVars, tailVars>>

SpecTest == InitTest /\ [][NextTest]_vars

(***************************************************************************)
(* Properties of the composite test (SpecTest).                            *)
(***************************************************************************)
\* C11: after any sequence of composite Record calls every statistic of the
\* list has been offered the same sequence of observations (each call
\* applies Record once to every statistic).
C11_SameObservationsOffered ==
    \A i, j \in 1..Len(offered) : offered[i] = offered[j]


(***************************************************************************)
(* Part IV - the event bus (eventbus.EventBus): Subscribe, Unsubscribe,    *)
(* Dispatch and Shutdown called concurrently, the delivery goroutines,     *)
(* the RWMutex of the bus and the subscribers reading their streams.       *)
(***************************************************************************)
MaxSubscribers == 2
MaxEvents == 2
MaxUnsubscribes == 1

defaultTopic == "__default__"

BusTopics == {"a", "b", defaultTopic}

Range(f) == {f[i] : i \in DOMAIN f}

\* channels[0:i] ++ channels[i+1:] for every i with channels[i] = ch
RECURSIVE Without(_, _)
Without(chs, ch) ==
    IF chs = <<>> THEN <<>>
    ELSE IF Head(chs) = ch THEN Without(Tail(chs), ch)
    ELSE <<Head(chs)>> \o Without(Tail(chs), ch)

\* the number of entries of a topic list that are the stream ch
RECURSIVE CountIn(_, _)
CountIn(chs, ch) ==
    IF chs = <<>> THEN 0
    ELSE (IF Head(chs) = ch THEN 1 ELSE 0) + CountIn(Tail(chs), ch)

Occurrences(ch) == SumOver([t \in BusTopics |-> CountIn(subscribers[t], ch)],
                           BusTopics)

\* a Subscribe or Unsubscribe call in progress: pc is lock (waiting for
\* another writer) or announced (waiting for the readers)
NewCall(op) ==
    [op |-> op, pc |-> "lock", topics |-> <<>>, reads |-> FALSE, sub |-> 0,
     ownDone |-> FALSE]

\* the calls that have not returned
Pending ==
    BagCardinality(busCalls)
    + Cardinality({e \in DOMAIN events : events[e].pc # "returned"})
    + (IF shutdown.pc \in {"lock", "announced", "select"} THEN 1 ELSE 0)

\* a caller may enter the bus
MayCall == ~busPanic /\ Pending < callers.pending

\* RWMutex.Lock: the writer takes rw.w and announces itself at once when no
\* other writer has done so; readers arriving from then on wait
LockPc == IF writer = "none" THEN "announced" ELSE "lock"

\* RWMutex.RLock: the reader holds the lock unless a writer has announced
RLockPc == IF writer = "none" THEN "held" ELSE "rwait"

\* some reader holds the RWMutex
ReadersHeld ==
    \/ \E d \in deliveries : d.pc = "held"
    \/ \E e \in DOMAIN events : events[e].pc = "held"

\* RWMutex.Unlock: the readers that waited for the writer hold the lock
ReleasedCalls(es) ==
    [e \in DOMAIN es |->
        IF es[e].pc = "rwait" THEN [es[e] EXCEPT !.pc = "held"] ELSE es[e]]

ReleasedDeliveries(ds) ==
    {IF d.pc = "rwait" THEN [d EXCEPT !.pc = "held"] ELSE d : d \in ds}

\* the Dispatch calls made after sdStarted was set
AfterShutdown ==
    {e \in DOMAIN events :
        shutdown.pc \in {"select", "returned", "panic"} /\ e > shutdown.since}

InitBus ==
    /\ NewBus
    /\ callers \in {SlowCallers, TopicCallers}
    /\ IdleSup
    /\ IdleStat
    /\ IdleTest
    /\ IdleFsm
    /\ IdleTail

\* a caller enters e.Subscribe(topics...) and calls e.mutex.Lock
CallSubscribe ==
    /\ MayCall
    /\ Len(stream) + BagCardinality(busCalls) < MaxSubscribers
    /\ \E kind \in callers.kinds :
         busCalls' = busCalls (+) SetToBag({
                        [NewCall("Subscribe") EXCEPT !.pc = LockPc,
                            !.topics = kind[1], !.reads = kind[2]]})
    /\ writer' = IF writer = "none" THEN "call" ELSE writer
    /\ UNCHANGED <<subscribers, done, sdStarted, stream, doneClosed,
                   subscriber, events, shutdown, deliveries, ctxExpired,
                   busPanic, callers>>

\* a caller enters e.Unsubscribe(c, done) for a stream it got from Subscribe,
\* with the done channel of that stream or with another one
CallUnsubscribe ==
    /\ MayCall
    /\ \E s \in DOMAIN stream, ownDone \in BOOLEAN :
         /\ subscriber[s].unsubscribe = "none"
         /\ Cardinality({u \in DOMAIN subscriber :
                            subscriber[u].unsubscribe # "none"})
              < MaxUnsubscribes
         /\ busCalls' = busCalls (+) SetToBag({
                           [NewCall("Unsubscribe") EXCEPT !.pc = LockPc,
                               !.sub = s, !.ownDone = ownDone]})
         /\ subscriber' = [subscriber EXCEPT ![s].unsubscribe = "called"]
    /\ writer' = IF writer = "none" THEN "call" ELSE writer
    /\ UNCHANGED <<subscribers, done, sdStarted, stream, doneClosed,
                   events, shutdown, deliveries, ctxExpired, busPanic,
                   callers>>

\* a caller enters e.Dispatch(event, topics...) and calls e.mutex.RLock
CallDispatch ==
    /\ MayCall
    /\ Len(events) < MaxEvents
    /\ \E topics \in callers.topics :
         events' = Append(events,
                      [pc |-> RLockPc, topics |-> topics,
                       after |-> {e \in 1..Len(events) :
                                     events[e].pc = "returned"}])
    /\ UNCHANGED <<subscribers, done, sdStarted, writer, stream, doneClosed,
                   subscriber, busCalls, shutdown, deliveries, ctxExpired,
                   busPanic, callers>>

\* a caller enters e.Shutdown(ctx), ctx with or without a deadline
CallShutdown ==
    /\ MayCall
    /\ shutdown.pc = "none"
    /\ \E deadline \in BOOLEAN :
         shutdown' = [shutdown EXCEPT !.pc = LockPc, !.deadline = deadline]
    /\ writer' = IF writer = "none" THEN "shutdown" ELSE writer
    /\ UNCHANGED <<subscribers, done, sdStarted, stream, doneClosed,
                   subscriber, busCalls, events, deliveries, ctxExpired,
                   busPanic, callers>>

\* RWMutex.Lock of a Subscribe or Unsubscribe that waited for another writer
WAnnounce(call) ==
    /\ ~busPanic
    /\ call.pc = "lock"
    /\ writer = "none"
    /\ writer' = "call"
    /\ busCalls' = (busCalls (-) SetToBag({call}))
                   (+) SetToBag({[call EXCEPT !.pc = "announced"]})
    /\ UNCHANGED <<subscribers, done, sdStarted, stream, doneClosed,
                   subscriber, events, shutdown, deliveries, ctxExpired,
                   busPanic, callers>>

\* RWMutex.Lock of a Shutdown that waited for another writer
WAnnounceShutdown ==
    /\ ~busPanic
    /\ shutdown.pc = "lock"
    /\ writer = "none"
    /\ writer' = "shutdown"
    /\ shutdown' = [shutdown EXCEPT !.pc = "announced"]
    /\ UNCHANGED <<subscribers, done, sdStarted, stream, doneClosed,
                   subscriber, busCalls, events, deliveries, ctxExpired,
                   busPanic, callers>>

\* the loop of subscribe over the topics
RECURSIVE AddTo(_, _, _)
AddTo(subs, topics, ch) ==
    IF topics = <<>> THEN subs
    ELSE AddTo([subs EXCEPT ![Head(topics)] = Append(@, ch)], Tail(topics), ch)

\* EventBus.subscribe under the lock, and the deferred Unlock
SubscribeBody(call) ==
    /\ ~busPanic
    /\ call.op = "Subscribe"
    /\ call.pc = "announced"
    /\ ~ReadersHeld
    /\ LET ch == Len(stream) + 1
           topics == IF call.topics = <<>> THEN <<defaultTopic>>
                     ELSE call.topics
       IN  /\ stream' = Append(stream, [buf |-> <<>>, closed |-> FALSE])
           /\ subscriber' = Append(subscriber,
                               [topics |-> call.topics, reads |-> call.reads,
                                received |-> {}, order |-> <<>>,
                                finished |-> FALSE,
                                unsubscribe |-> "none",
                                since |-> Len(events)])
           /\ done' = Append(done, ch)
           /\ subscribers' = AddTo(subscribers, topics, ch)
    /\ busCalls' = busCalls (-) SetToBag({call})
    /\ events' = ReleasedCalls(events)
    /\ deliveries' = ReleasedDeliveries(deliveries)
    /\ writer' = "none"
    /\ UNCHANGED <<sdStarted, doneClosed, shutdown, ctxExpired, busPanic,
                   callers>>

\* the first loop of Unsubscribe with the entry of the stream kept in its list
RemoveStream_Keep(chs, ch) == chs

\* the first loop of Unsubscribe on one topic list
RemoveStream(chs, ch) == Without(chs, ch)

\* Unsubscribe closes a closed channel: the stream is in two topic lists or
\* was closed before, or the done channel was closed by the subscriber
\* (recover outside a deferred function returns nil and stops no panic)
UnsubscribePanics(call) ==
    LET s == call.sub
    IN  \/ Occurrences(s) >= 2
        \/ Occurrences(s) = 1 /\ stream[s].closed
        \/ call.ownDone /\ s \in Range(done) /\ s \in doneClosed

\* EventBus.Unsubscribe under the lock, and the deferred Unlock
UnsubscribeBody(call) ==
    /\ ~busPanic
    /\ call.op = "Unsubscribe"
    /\ call.pc = "announced"
    /\ ~ReadersHeld
    /\ LET s == call.sub
       IN  IF UnsubscribePanics(call)
           THEN /\ busPanic' = TRUE
                /\ subscriber' = [subscriber EXCEPT ![s].unsubscribe = "panic"]
                /\ UNCHANGED <<subscribers, done, stream, doneClosed, events,
                               deliveries, writer, busCalls>>
           ELSE /\ subscribers' = [t \in BusTopics |->
                                     RemoveStream(subscribers[t], s)]
                /\ stream' = IF Occurrences(s) = 1
                             THEN [stream EXCEPT ![s].closed = TRUE]
                             ELSE stream
                /\ done' = IF call.ownDone THEN Without(done, s) ELSE done
                /\ doneClosed' = IF call.ownDone /\ s \in Range(done)
                                 THEN doneClosed \cup {s} ELSE doneClosed
                /\ subscriber' = [subscriber EXCEPT
                                     ![s].unsubscribe = "returned"]
                /\ busCalls' = busCalls (-) SetToBag({call})
                /\ events' = ReleasedCalls(events)
                /\ deliveries' = ReleasedDeliveries(deliveries)
                /\ writer' = "none"
                /\ UNCHANGED busPanic
    /\ UNCHANGED <<sdStarted, shutdown, ctxExpired, callers>>

\* Dispatch sending on every topic of the bus
TopicsOfDispatch_Every(topics) == <<"a", "b", defaultTopic>>

\* Dispatch: topics = append(topics, defaultTopic)
TopicsOfDispatch(topics) == Append(topics, defaultTopic)

\* the goroutines Dispatch starts for its k-th topic: the outer goroutine
\* only starts one inner goroutine per stream of the copied list
Fanout(evt, topics, k) ==
    LET chs == subscribers[topics[k]]
    IN  {[evt |-> evt, k |-> k, n |-> n, ch |-> chs[n], pc |-> "rlock"] :
            n \in 1..Len(chs)}

\* EventBus.Dispatch under the read lock, and the deferred RUnlock
DispatchBody(e) ==
    /\ ~busPanic
    /\ events[e].pc = "held"
    /\ events' = [events EXCEPT ![e].pc = "returned"]
    /\ deliveries' =
         IF sdStarted THEN deliveries
         ELSE LET topics == TopicsOfDispatch(events[e].topics)
              IN  deliveries \cup
                  UNION {Fanout(e, topics, k) : k \in 1..Len(topics)}
    /\ UNCHANGED <<subscribers, done, sdStarted, writer, stream, doneClosed,
                   subscriber, busCalls, shutdown, ctxExpired, busPanic,
                   callers>>

\* the inner goroutine calls e.mutex.RLock
DeliverRLock(d) ==
    /\ ~busPanic
    /\ d.pc = "rlock"
    /\ deliveries' = (deliveries \ {d}) \cup {[d EXCEPT !.pc = RLockPc]}
    /\ UNCHANGED <<subscribers, done, sdStarted, writer, stream, doneClosed,
                   subscriber, busCalls, events, shutdown, ctxExpired,
                   busPanic, callers>>

\* the inner goroutine under the read lock: it returns when shutdown has
\* started, panics on a closed stream (defer recover() stops no panic),
\* and otherwise sends, which blocks while the buffer is full
DeliverSend(d) ==
    /\ ~busPanic
    /\ d.pc = "held"
    /\ IF sdStarted
       THEN /\ deliveries' = deliveries \ {d}
            /\ UNCHANGED <<stream, busPanic>>
       ELSE IF stream[d.ch].closed
       THEN /\ busPanic' = TRUE
            /\ UNCHANGED <<stream, deliveries>>
       ELSE /\ Len(stream[d.ch].buf) < 1
            /\ stream' = [stream EXCEPT ![d.ch].buf = Append(@, d.evt)]
            /\ deliveries' = deliveries \ {d}
            /\ UNCHANGED busPanic
    /\ UNCHANGED <<subscribers, done, sdStarted, writer, doneClosed,
                   subscriber, busCalls, events, shutdown, ctxExpired,
                   callers>>

\* Shutdown closes a closed channel: a stream is in two topic lists
ShutdownPanics ==
    \E s \in DOMAIN stream :
        \/ Occurrences(s) >= 2
        \/ Occurrences(s) = 1 /\ stream[s].closed

\* EventBus.Shutdown under the lock, up to its select
ShutdownBody ==
    /\ ~busPanic
    /\ shutdown.pc = "announced"
    /\ ~ReadersHeld
    /\ sdStarted' = TRUE
    /\ IF ShutdownPanics
       THEN /\ busPanic' = TRUE
            /\ shutdown' = [shutdown EXCEPT !.pc = "panic",
                                            !.since = Len(events)]
            /\ UNCHANGED stream
       ELSE /\ stream' = [s \in DOMAIN stream |->
                            IF Occurrences(s) = 1
                            THEN [stream[s] EXCEPT !.closed = TRUE]
                            ELSE stream[s]]
            /\ shutdown' = [shutdown EXCEPT !.pc = "select",
                                            !.snapshot = Range(done),
                                            !.since = Len(events)]
            /\ UNCHANGED busPanic
    /\ UNCHANGED <<subscribers, done, writer, doneClosed, subscriber,
                   busCalls, events, deliveries, ctxExpired,
                   callers>>

\* shutdownNotify has seen every done channel of its copy closed
NotifyDone == shutdown.snapshot \subseteq doneClosed

\* case <-done: return nil, and the deferred Unlock
ShutdownReturnNil ==
    /\ ~busPanic
    /\ shutdown.pc = "select"
    /\ NotifyDone
    /\ shutdown' = [shutdown EXCEPT !.pc = "returned"]
    /\ events' = ReleasedCalls(events)
    /\ deliveries' = ReleasedDeliveries(deliveries)
    /\ writer' = "none"
    /\ UNCHANGED <<subscribers, done, sdStarted, stream, doneClosed,
                   subscriber, busCalls, ctxExpired, busPanic,
                   callers>>

\* case <-ctx.Done(): return ErrShutdownTimeout, and the deferred Unlock
ShutdownReturnTimeout ==
    /\ ~busPanic
    /\ shutdown.pc = "select"
    /\ ctxExpired
    /\ shutdown' = [shutdown EXCEPT !.pc = "returned",
                                    !.err = "ErrShutdownTimeout"]
    /\ events' = ReleasedCalls(events)
    /\ deliveries' = ReleasedDeliveries(deliveries)
    /\ writer' = "none"
    /\ UNCHANGED <<subscribers, done, sdStarted, stream, doneClosed,
                   subscriber, busCalls, ctxExpired, busPanic,
                   callers>>

\* the deadline of the context given to Shutdown passes
CtxExpire ==
    /\ ~busPanic
    /\ ~ctxExpired
    /\ shutdown.pc # "none"
    /\ shutdown.deadline
    /\ ctxExpired' = TRUE
    /\ UNCHANGED <<subscribers, done, sdStarted, writer, stream, doneClosed,
                   subscriber, busCalls, events, shutdown, deliveries,
                   busPanic, callers>>

\* a subscriber that reads its stream receives the buffered event
Receive(s) ==
    /\ ~busPanic
    /\ subscriber[s].reads
    /\ stream[s].buf # <<>>
    /\ subscriber' = [subscriber EXCEPT
                         ![s].received = @ \cup {Head(stream[s].buf)},
                         ![s].order = Append(@, Head(stream[s].buf))]
    /\ stream' = [stream EXCEPT ![s].buf = Tail(@)]
    /\ UNCHANGED <<subscribers, done, sdStarted, writer, doneClosed,
                   busCalls, events, shutdown, deliveries, ctxExpired,
                   busPanic, callers>>

\* a subscriber that reads its stream finds it closed and calls its
\* ShutdownFunc, which closes its done channel
SubscriberDone(s) ==
    /\ ~busPanic
    /\ subscriber[s].reads
    /\ ~subscriber[s].finished
    /\ stream[s].buf = <<>>
    /\ stream[s].closed
    /\ subscriber' = [subscriber EXCEPT ![s].finished = TRUE]
    /\ IF s \in doneClosed
       THEN busPanic' = TRUE /\ UNCHANGED doneClosed
       ELSE doneClosed' = doneClosed \cup {s} /\ UNCHANGED busPanic
    /\ UNCHANGED <<subscribers, done, sdStarted, writer, stream, busCalls,
                   events, shutdown, deliveries, ctxExpired,
                   callers>>

\* a step of a goroutine that is already running, or of the clock
BusProgress ==
    \/ \E call \in BagToSet(busCalls) :
          WAnnounce(call) \/ SubscribeBody(call) \/ UnsubscribeBody(call)
    \/ \E e \in DOMAIN events : DispatchBody(e)
    \/ WAnnounceShutdown
    \/ ShutdownBody
    \/ ShutdownReturnNil
    \/ ShutdownReturnTimeout
    \/ \E d \in deliveries : DeliverRLock(d) \/ DeliverSend(d)
    \/ CtxExpire
    \/ \E s \in DOMAIN stream : Receive(s) \/ SubscriberDone(s)

NextBus ==
    \/ CallSubscribe /\ UNCHANGED <<supVars, statVars, testVars, fsmVars, tailVars>>
    \/ CallUnsubscribe /\ UNCHANGED <<supVars, statVars, testVars, fsmVars, tailVars>>
    \/ CallDispatch /\ UNCHANGED <<supVars, statVars, testVars, fsmVars, tailVars>>
    \/ CallShutdown /\ UNCHANGED <<supVars, statVars, testVars, fsmVars, tailVars>>
    \/ (\E call \in BagToSet(busCalls) : WAnnounce(call))
         /\ UNCHANGED <<supVars, statVars, testVars, fsmVars, tailVars>>
    \/ (\E call \in BagToSet(busCalls) : SubscribeBody(call))
         /\ UNCHANGED <<supVars, statVars, testVars, fsmVars, tailVars>>
    \/ (\E call \in BagToSet(busCalls) : UnsubscribeBody(call))
         /\ UNCHANGED <<supVars, statVars, testVars, fsmVars, tailVars>>
    \/ (\E e \in DOMAIN events : DispatchBody(e))
         /\ UNCHANGED <<supVars, statVars, testVars, fsmVars, tailVars>>
    \/ WAnnounceShutdown /\ UNCHANGED <<supVars, statVars, testVars, fsmVars, tailVars>>
    \/ ShutdownBody /\ UNCHANGED <<supVars, statVars, testVars, fsmVars, tailVars>>
    \/ ShutdownReturnNil /\ UNCHANGED <<supVars, statVars, testVars, fsmVars, tailVars>>
    \/ ShutdownReturnTimeout /\ UNCHANGED <<supVars, statVars, testVars, fsmVars, tailVars>>
    \/ (\E d \in deliveries : DeliverRLock(d))
         /\ UNCHANGED <<supVars, statVars, testVars, fsmVars, tailVars>>
    \/ (\E d \in deliveries : DeliverSend(d))
         /\ UNCHANGED <<supVars, statVars, testVars, fsmVars, tailVars>>
    \/ CtxExpire /\ UNCHANGED <<supVars, statVars, testVars, fsmVars, tailVars>>
    \/ (\E s \in DOMAIN stream : Receive(s))
         /\ UNCHANGED <<supVars, statVars, testVars, fsmVars, tailVars>>
    \/ (\E s \in DOMAIN stream : SubscriberDone(s))
         /\ UNCHANGED <<supVars, statVars, testVars, fsmVars, tailVars>>

SpecBus == InitBus /\ [][NextBus]_vars

\* no goroutine of the bus can take a step and the clock has nothing to
\* bring: whatever has not happened by now never happens unless a new call
\* is made
Quiescent == ~ENABLED BusProgress

\* the subscribers that subscribed without a topic, read their stream and
\* were never handed to Unsubscribe
DefaultReaders ==
    {s \in DOMAIN subscriber :
        /\ subscriber[s].topics = <<>>
        /\ subscriber[s].reads
        /\ subscriber[s].unsubscribe = "none"}

\* C12: when Shutdown is never called and nothing panics, once every
\* goroutine has run as far as it can, every no-topic subscriber that reads
\* its stream has received every event whose Dispatch call was made after
\* its Subscribe returned.
C12_DefaultSubscriberReceivesAll ==
    (Quiescent /\ ~busPanic /\ shutdown.pc = "none")
        => \A s \in DefaultReaders :
              \A e \in DOMAIN events :
                  e > subscriber[s].since => e \in subscriber[s].received

\* the events a subscriber has been sent: those it has read and the one in
\* the buffer of its stream
Delivered(s) == subscriber[s].received \cup Range(stream[s].buf)

\* one of the topics of the subscriber is in the topic list of the Dispatch
\* call of the event
TopicMatch(s, e) ==
    Range(subscriber[s].topics) \cap Range(events[e].topics) # {}

C14_NonReaderBlocksNobody ==
    (Quiescent /\ ~busPanic /\ shutdown.pc = "none")
        => /\ \A e \in DOMAIN events : events[e].pc = "returned"
           /\ \A d \in deliveries : ~subscriber[d.ch].reads

\* no goroutine carries the event to a stream and no stream has been sent it
Dropped(e) ==
    /\ \A d \in deliveries : d.evt # e
    /\ \A s \in DOMAIN stream : e \notin Delivered(s)

\* C15: an event whose Dispatch call is made after Shutdown has set
\* sdStarted is sent to no subscriber, and, unless a goroutine has
\* panicked, once every goroutine has run as far as it can that Dispatch
\* call has returned.
C15_DispatchAfterShutdownDrops ==
    /\ \A e \in AfterShutdown : Dropped(e)
    /\ (Quiescent /\ ~busPanic)
          => \A e \in AfterShutdown : events[e].pc = "returned"

\* every subscriber of the bus has invoked its shutdown handle
AllHandlesInvoked == (Range(done) \cup shutdown.snapshot) \subseteq doneClosed

\* Shutdown was called and all handles have been invoked or the context of
\* the call is done
ShutdownDue == shutdown.pc # "none" /\ (ctxExpired \/ AllHandlesInvoked)

\* C16: a Shutdown call does not panic; once every goroutine has run as far
\* as it can, a Shutdown call whose context is done or whose subscribers
\* have all invoked their handles has returned; it returns nil only when
\* all of them have, and ErrShutdownTimeout only when the context is done.
C16_ShutdownReturns ==
    /\ shutdown.pc # "panic"
    /\ (Quiescent /\ ~busPanic /\ ShutdownDue) => shutdown.pc = "returned"
    /\ (shutdown.pc = "returned" /\ shutdown.err = "nil") => NotifyDone
    /\ (shutdown.pc = "returned" /\ shutdown.err = "ErrShutdownTimeout")
          => ctxExpired

\* the goroutines that carry an event to the stream of s
CarriedTo(s) == {<<d.evt, d.k, d.n>> : d \in {x \in deliveries : x.ch = s}}

\* what Unsubscribe returning for s leaves alone: the streams of the other
\* subscribers, their places in the topic lists and their done channels
OthersUnchanged(s) ==
    /\ \A u \in DOMAIN stream \ {s} : stream'[u] = stream[u]
    /\ \A t \in BusTopics :
          Without(subscribers'[t], s) = Without(subscribers[t], s)
    /\ Without(done', s) = Without(done, s)
    /\ doneClosed' \ {s} = doneClosed \ {s}

\* C17: the step in which Unsubscribe(c, done) returns changes nothing of
\* the other subscribers, and from that step on the stream c is closed, is
\* in no topic list, is sent no event and gets no new delivery goroutine.
C17_UnsubscribeRemovesAndCloses ==
    [][\A s \in DOMAIN subscriber :
          /\ (subscriber[s].unsubscribe = "called"
                /\ subscriber'[s].unsubscribe = "returned")
                => OthersUnchanged(s)
          /\ subscriber'[s].unsubscribe = "returned"
                => /\ stream'[s].closed
                   /\ \A t \in BusTopics : CountIn(subscribers'[t], s) = 0
          /\ subscriber[s].unsubscribe = "returned"
                => /\ Delivered(s)' \subseteq Delivered(s)
                   /\ CarriedTo(s)' \subseteq CarriedTo(s)]_vars

\* Unsubscribe has returned for one of two subscribers with the same
\* topics; the other one, still registered, has then read an event that
\* was dispatched after both had subscribed and that the unsubscribed one
\* was not sent
C17_Witness ==
    /\ ~busPanic
    /\ \E s, u \in DOMAIN subscriber :
         /\ s # u
         /\ subscriber[s].unsubscribe = "returned"
         /\ subscriber[s].topics = subscriber[u].topics
         /\ Occurrences(u) >= 1
         /\ ~stream[u].closed
         /\ \E e \in subscriber[u].received :
              /\ e > subscriber[s].since
              /\ e \notin Delivered(s)
              /\ \A d \in deliveries : d.evt # e

(***************************************************************************)
(* Part V - the state machines of package fsm: a Machine, with or without  *)
(* WithStoppable, and a MachineNonce, driven by arbitrary callers.         *)
(* newNonce draws 16 bytes from crypto/rand; the model numbers the nonces  *)
(* in the order they are drawn, so each draw is a value not drawn before,  *)
(* and 0 stands for a byte string that is never drawn.                     *)
(***************************************************************************)
MaxFsmCalls == 4
MaxNonces == 4

FsmStates == {"initial", "processing", "error", "finished"}

\* T(initial, processing), T(processing, error, finished)
TestGraph ==
    [s \in FsmStates |->
        CASE s = "initial"    -> {"processing"}
          [] s = "processing" -> {"error", "finished"}
          [] OTHER            -> {}]

\* a graph with a cycle and a self-loop
CycleGraph ==
    [s \in FsmStates |->
        CASE s = "initial"    -> {"processing"}
          [] s = "processing" -> {"processing", "initial", "finished"}
          [] OTHER            -> {}]

\* NewMachine(initial, opts...) with or without WithStoppable
NewMachine(initial, stoppable) ==
    [newMachine(initial) EXCEPT !.stopOnError = stoppable]

\* newNonce: the next value of crypto/rand
newNonce(n) == [current |-> n + 1, once |-> FALSE, received |-> 0]

\* NewMachineNonce(initial, opts...)
NewMachineNonce(initial, stoppable) ==
    [m |-> NewMachine(initial, stoppable), nonce |-> newNonce(0)]

\* nonce.ok accepting whatever it is given
NonceOk_Any(n) == TRUE

\* nonce.ok: bytes.Equal(n.current, n.received), evaluated through n.once
NonceOk(n) == ~n.once /\ n.current = n.received

\* Machine.transition with a failing nonce guard that leaves the stop flag
GuardedTransition_NoStop(m, n, to) ==
    IF ~StoppableOk(m)
    THEN [m |-> [m EXCEPT !.stopped = TRUE], err |-> "StopError"]
    ELSE IF ~NonceOk(n)
    THEN [m |-> m, err |-> "NonceError"]
    ELSE MachineTransition(m, to)

\* Machine.transition(to, m.stoppable, m.nonce): the guards in order, then
\* the edge; every failure sets stoppable.stopped
GuardedTransition(m, n, to) ==
    IF ~StoppableOk(m)
    THEN [m |-> [m EXCEPT !.stopped = TRUE], err |-> "StopError"]
    ELSE IF ~NonceOk(n)
    THEN [m |-> [m EXCEPT !.stopped = TRUE], err |-> "NonceError"]
    ELSE MachineTransition(m, to)

\* Machine.reset
MachineReset(m) == [m EXCEPT !.current = m.initial, !.stopped = FALSE]

InitFsm ==
    /\ \E stoppable \in BOOLEAN :
         machine = NewMachine("initial", stoppable)
    /\ \E stoppable \in BOOLEAN :
         nonceMachine = NewMachineNonce("initial", stoppable)
    /\ issued = 1
    /\ spent = {}
    /\ latched = [k \in {"machine", "nonce", "wrong", "wrongEver"} |-> FALSE]
    /\ fsmOp = NoFsmOp
    /\ fsmCalls = 0
    /\ allowable \in {TestGraph, CycleGraph}
    /\ estimator = NewEWMATestStatistic(12, "0.05", "log-normal", 1)
    /\ calls = 0
    /\ lastOp = NoOp
    /\ IdleSup
    /\ IdleTest
    /\ IdleBus
    /\ IdleTail

\* m.Transition(to) on the Machine
FsmTransition ==
    /\ fsmCalls < MaxFsmCalls
    /\ \E to \in FsmStates :
         LET r == MachineTransition(machine, to)
         IN  /\ machine' = r.m
             /\ fsmOp' = [NoFsmOp EXCEPT !.op = "Transition",
                             !.from = machine.current, !.to = to,
                             !.err = r.err, !.latched = latched["machine"]]
             /\ latched' = [latched EXCEPT
                               !["machine"] = @ \/ r.err # "nil"]
    /\ fsmCalls' = fsmCalls + 1
    /\ UNCHANGED <<nonceMachine, issued, spent>>

\* m.Reset() on the Machine
FsmReset ==
    /\ fsmCalls < MaxFsmCalls
    /\ machine' = MachineReset(machine)
    /\ fsmOp' = [NoFsmOp EXCEPT !.op = "Reset", !.from = machine.current,
                    !.to = machine.initial, !.latched = latched["machine"]]
    /\ latched' = [latched EXCEPT !["machine"] = FALSE]
    /\ fsmCalls' = fsmCalls + 1
    /\ UNCHANGED <<nonceMachine, issued, spent>>

\* m.Transition(to, nonce) on the MachineNonce: the nonce is replaced after
\* the attempt whether it failed or not
NonceTransition ==
    /\ fsmCalls < MaxFsmCalls
    /\ issued < MaxNonces
    /\ \E to \in FsmStates, supplied \in 0..MaxNonces :
         LET n == [nonceMachine.nonce EXCEPT !.received = supplied]
             r == GuardedTransition(nonceMachine.m, n, to)
         IN  /\ nonceMachine' = [m |-> r.m, nonce |-> newNonce(issued)]
             /\ fsmOp' = [NoFsmOp EXCEPT !.op = "NonceTransition",
                             !.from = nonceMachine.m.current, !.to = to,
                             !.err = r.err, !.latched = latched["nonce"],
                             !.supplied = supplied, !.nonce = n.current,
                             !.replay = (supplied \in spent),
                             !.wrong = latched["wrong"],
                             !.wrongEver = latched["wrongEver"]]
             /\ latched' = [latched EXCEPT
                               !["nonce"] = @ \/ r.err # "nil",
                               !["wrong"] = @ \/ supplied # n.current,
                               !["wrongEver"] = @ \/ supplied # n.current]
    /\ issued' = issued + 1
    /\ spent' = spent \cup {nonceMachine.nonce.current}
    /\ fsmCalls' = fsmCalls + 1
    /\ UNCHANGED machine

\* m.Reset() on the MachineNonce
NonceReset ==
    /\ fsmCalls < MaxFsmCalls
    /\ issued < MaxNonces
    /\ nonceMachine' = [m |-> MachineReset(nonceMachine.m),
                        nonce |-> newNonce(issued)]
    /\ fsmOp' = [NoFsmOp EXCEPT !.op = "NonceReset",
                    !.from = nonceMachine.m.current,
                    !.to = nonceMachine.m.initial,
                    !.latched = latched["nonce"],
                    !.nonce = nonceMachine.nonce.current]
    /\ latched' = [latched EXCEPT !["nonce"] = FALSE, !["wrong"] = FALSE]
    /\ issued' = issued + 1
    /\ spent' = spent \cup {nonceMachine.nonce.current}
    /\ fsmCalls' = fsmCalls + 1
    /\ UNCHANGED machine

NextFsm ==
    \/ FsmTransition /\ UNCHANGED <<supVars, statVars, testVars, busVars, tailVars>>
    \/ FsmReset /\ UNCHANGED <<supVars, statVars, testVars, busVars, tailVars>>
    \/ NonceTransition /\ UNCHANGED <<supVars, statVars, testVars, busVars, tailVars>>
    \/ NonceReset /\ UNCHANGED <<supVars, statVars, testVars, busVars, tailVars>>

SpecFsm == InitFsm /\ [][NextFsm]_vars

\* (from, to) of the last call is an edge of the configured graph
EdgeOfLastCall == fsmOp.to \in allowable[fsmOp.from]

\* C18: on a Machine built without WithStoppable, Transition(to) along an
\* edge of the graph returns nil and makes `to` the current state, and
\* Transition(to) along anything else returns TransitionNotAllowed and
\* leaves the current state as it was.
C18_TransitionIffEdge ==
    (fsmOp.op = "Transition" /\ ~machine.stopOnError)
        => IF EdgeOfLastCall
           THEN fsmOp.err = "nil" /\ machine.current = fsmOp.to
           ELSE /\ fsmOp.err = "TransitionNotAllowed"
                /\ machine.current = fsmOp.from

\* a Machine without WithStoppable has refused a transition and has then
\* moved to another state along an edge
C18_Witness ==
    /\ ~machine.stopOnError
    /\ fsmOp.op = "Transition"
    /\ fsmOp.latched
    /\ fsmOp.err = "nil"
    /\ fsmOp.from # fsmOp.to
    /\ machine.current = fsmOp.to

\* C19: on a Machine built with WithStoppable, a Transition made after an
\* attempt has failed and before Reset returns StopError and leaves the
\* state as it was, edge or not; the first failing attempt itself returns
\* TransitionNotAllowed; Reset puts the machine in its initial state with
\* the stop flag cleared, after which transitions along edges succeed.
C19_StoppedUntilReset ==
    machine.stopOnError
        => /\ (fsmOp.op = "Transition" /\ fsmOp.latched)
                => /\ fsmOp.err = "StopError"
                   /\ machine.current = fsmOp.from
                   /\ machine.stopped
           /\ (fsmOp.op = "Transition" /\ ~fsmOp.latched)
                => IF EdgeOfLastCall
                   THEN /\ fsmOp.err = "nil"
                        /\ machine.current = fsmOp.to
                        /\ ~machine.stopped
                   ELSE /\ fsmOp.err = "TransitionNotAllowed"
                        /\ machine.current = fsmOp.from
                        /\ machine.stopped
           /\ fsmOp.op = "Reset"
                => /\ machine.current = machine.initial
                   /\ ~machine.stopped
                   /\ ~latched["machine"]

\* a stopped machine has refused a transition along an edge with StopError
C19_Witness ==
    /\ machine.stopOnError
    /\ fsmOp.op = "Transition"
    /\ fsmOp.latched
    /\ EdgeOfLastCall
    /\ fsmOp.err = "StopError"
    /\ machine.current = fsmOp.from

\* C20: a Transition of a MachineNonce succeeds only when the nonce it is
\* given is the current nonce; after every attempt, failed or not, the
\* current nonce is one that was never current before; an attempt that
\* supplies a nonce that was current before an earlier attempt fails.
C20_NonceSingleUse ==
    /\ nonceMachine.nonce.current \notin spent
    /\ fsmOp.op = "NonceTransition"
          => /\ fsmOp.err = "nil" => fsmOp.supplied = fsmOp.nonce
             /\ nonceMachine.nonce.current # fsmOp.nonce
             /\ fsmOp.nonce \in spent
             /\ fsmOp.replay => fsmOp.err # "nil"
             /\ fsmOp.err # "nil" => nonceMachine.m.current = fsmOp.from

\* an attempt along an edge with a nonce that was current before an earlier,
\* successful attempt has been refused with NonceError
C20_Witness ==
    /\ fsmOp.op = "NonceTransition"
    /\ fsmOp.replay
    /\ EdgeOfLastCall
    /\ fsmOp.supplied # 0
    /\ fsmOp.err = "NonceError"
    /\ nonceMachine.m.current # nonceMachine.m.initial

\* C21 as stated: on a MachineNonce built with WithStoppable, a Transition
\* made at any time after an attempt with a nonce other than the current
\* one fails and leaves the state as it was.
C21_WrongNonceStopsForEver ==
    (nonceMachine.m.stopOnError /\ fsmOp.op = "NonceTransition"
        /\ fsmOp.wrongEver)
        => fsmOp.err # "nil" /\ nonceMachine.m.current = fsmOp.from

\* C21: on a MachineNonce built with WithStoppable, a Transition made after
\* an attempt with a nonce other than the current one, and before Reset,
\* fails and leaves the state as it was, also when it supplies the current
\* nonce and an allowed target; Reset clears the stop.
C21_WrongNonceStopsUntilReset ==
    /\ (nonceMachine.m.stopOnError /\ fsmOp.op = "NonceTransition"
          /\ fsmOp.wrong)
          => /\ fsmOp.err = "StopError"
             /\ nonceMachine.m.current = fsmOp.from
             /\ nonceMachine.m.stopped
    /\ fsmOp.op = "NonceReset"
          => /\ ~nonceMachine.m.stopped
             /\ nonceMachine.m.current = nonceMachine.m.initial

\* a stoppable MachineNonce that was given a wrong nonce has refused the
\* current nonce on an edge of the graph
C21_Witness ==
    /\ nonceMachine.m.stopOnError
    /\ fsmOp.op = "NonceTransition"
    /\ fsmOp.wrong
    /\ fsmOp.supplied = fsmOp.nonce
    /\ EdgeOfLastCall
    /\ fsmOp.err = "StopError"

-----------------------------------------------------------------------------
\* PART VI.  The bounded line histories: Command.Stdout / Command.Stderr
\* (processStdout, processStderr) and proc.Queue.

\* lines scanned per stream, and Add calls made on the Queue
MaxLogLines == 4

\* the largest configured capacity explored
MaxHistory == 3

\* Queue.add: q.q = append(q.q, s)
add(qu, s) == [qu EXCEPT !.q = Append(@, s)]

\* Queue.pop: q.q = q.q[1:]; return q.q[0]
\*   q.q[1:] panics (slice bounds out of range) on an empty slice and leaves
\*   q.q as it was; q.q[0] panics (index out of range) when the slice that
\*   q.q[1:] left is empty, after q.q was assigned
pop(qu) ==
    IF Len(qu.q) = 0 THEN [qu EXCEPT !.panic = TRUE]
    ELSE IF Len(qu.q) = 1 THEN [qu EXCEPT !.q = Tail(@), !.panic = TRUE]
    ELSE [qu EXCEPT !.q = Tail(@)]

\* Queue.Add:
\*   switch { case len(q.q) < q.capacity: q.add(s)
\*            default: _ = q.pop(); q.add(s) }
Add(qu, s) ==
    IF Len(qu.q) < qu.capacity THEN add(qu, s)
    ELSE IF pop(qu).panic THEN pop(qu) ELSE add(pop(qu), s)

\* Queue.Copy: a new slice with the elements of q.q
Copy(qu) == [i \in 1..Len(qu.q) |-> qu.q[i]]

\* a goroutine of the Command has panicked: the process is gone
HistoryPanic == \E s \in Streams : history[s].panic

\* processStdout / processStderr on the next line of the stream, the history
\* switch only: the line is the number of the line within its stream
ProcessLine(s) ==
    /\ ~HistoryPanic
    /\ history[s].scanned < MaxLogLines
    /\ LET line == history[s].scanned + 1
           sw == HistorySwitch(history[s].lines, hist, line)
       IN  history' = [history EXCEPT ![s] =
               [lines |-> sw.lines, scanned |-> line, panic |-> sw.panic]]
    /\ UNCHANGED <<hist, queue>>

\* q.Add(s) with the next string: the string is the number of the call
QueueAdd ==
    /\ ~queue.panic
    /\ queue.adds < MaxLogLines
    /\ queue' = [Add(queue, queue.adds + 1) EXCEPT !.adds = queue.adds + 1]
    /\ UNCHANGED <<hist, history>>

InitHist ==
    /\ hist \in 0..MaxHistory
    /\ history = [s \in Streams |-> NoHistory]
    /\ queue = NewQueue(hist)
    /\ IdleSup
    /\ IdleStat
    /\ IdleTest
    /\ IdleBus
    /\ IdleFsm
    /\ IdleLog
    /\ IdleMet

NextHist ==
    \/ (\E s \in Streams : ProcessLine(s))
         /\ UNCHANGED <<supVars, statVars, testVars, busVars, fsmVars, logVars,
                     metVars>>
    \/ QueueAdd
         /\ UNCHANGED <<supVars, statVars, testVars, busVars, fsmVars, logVars,
                     metVars>>

SpecHist == InitHist /\ [][NextHist]_vars

\* the last k elements of 1..n, in order
LastLines(n, k) == [i \in 1..k |-> n - k + i]

MinOf(a, b) == IF a < b THEN a ELSE b

\* C22: at every point of a run, for every configured capacity >= 0 and every
\* sequence of scanned lines, the stdout history and the stderr history of
\* the Command hold at most their capacity of lines, and a log history Queue
\* holds at most its capacity of strings.
C22_HistoriesWithinCapacity ==
    /\ \A s \in Streams : Len(history[s].lines) <= hist
    /\ Len(queue.q) <= queue.capacity

\* both histories and the Queue have been filled past their capacity
C22_Witness ==
    /\ hist >= 2
    /\ \A s \in Streams : history[s].scanned > hist /\ ~history[s].panic
    /\ queue.adds > hist
    /\ Len(queue.q) = queue.capacity

\* C23: after n lines scanned from a stream with history capacity c >= 1,
\* the history of the stream is the most recent min(n, c) lines in scan
\* order: an overflow evicts the single oldest line and nothing else.
C23_HistoryIsMostRecent ==
    \A s \in Streams :
        hist >= 1 =>
            /\ ~history[s].panic
            /\ history[s].lines =
                   LastLines(history[s].scanned,
                             MinOf(history[s].scanned, hist))

\* C24: for a Queue of capacity c >= 1 and n Add calls, every Add completes
\* normally and Copy() returns the last min(n, c) added strings in insertion
\* order.
C24_QueueKeepsLast ==
    queue.capacity >= 1 =>
        /\ ~queue.panic
        /\ Copy(queue) =
               LastLines(queue.adds, MinOf(queue.adds, queue.capacity))

\* the Dispatch call of e1 had returned when Dispatch was called with e2, as
\* for two lines of one source, which startLogEmitter dispatches one after
\* the other
DispatchedBefore(e1, e2) == e1 \in events[e2].after

\* C25: two lines of one source, a scanned before b, are dispatched in that
\* order by the emitter, and every subscriber that receives both receives a
\* before b.
C25_LinesDeliveredInOrder ==
    \A s \in DOMAIN subscriber :
        \A i, j \in 1..Len(subscriber[s].order) :
            DispatchedBefore(subscriber[s].order[i], subscriber[s].order[j])
                => i < j

-----------------------------------------------------------------------------
\* PART VII.  proc.LogProcessor: NewLogProcessor, startLogEmitter, Wait.

\* lines on each source before its end-of-stream
MaxEmit == 2

\* logProcOpt.hist as NewLogProcessor sets it
DefaultLogHistory == 30

\* the histories explored: WithHistory(1) and the default
LogHistories == {1, DefaultLogHistory}

\* WithCommand: the sources and sinks of a wrapped and of a piped process
LogConfigs ==
    {[sources |-> {"pStdout", "pStderr"}, sinks |-> {"mStdout", "mStderr"}],
     [sources |-> {"mStdin"}, sinks |-> {"mStdout"}]}

\* filterSink
filterSink(sinks, target) == sinks \ {target}

\* the sinks NewLogProcessor gives to the emitter of a source
SinksOf(s) ==
    IF s = "pStdout" THEN filterSink(DOMAIN sink, "mStderr")
    ELSE IF s = "pStderr" THEN filterSink(DOMAIN sink, "mStdout")
    ELSE DOMAIN sink

\* NewLogProcessor: one emitter goroutine per source, l.wg.Add(1) for each
NewLogProcessor(cfg, h) ==
    /\ source = [s \in cfg.sources |->
                    [q |-> NewQueue(h), pc |-> "scan", scanned |-> 0,
                     readError |-> FALSE]]
    /\ sink = [k \in cfg.sinks |->
                  [closed |-> FALSE, written |-> <<>>, failed |-> {}]]
    /\ lineEvents = [s \in cfg.sources |-> <<>>]
    /\ errorEvents = {}
    /\ wait = NoWait
    /\ logCtx = FALSE

\* an emitter goroutine has panicked: the process is gone
LogPanic == \E s \in DOMAIN source : source[s].pc = "panic"

\* newError: an event of the type of the error, on the error topic
newError(type, s, line) == [type |-> type, source |-> s, line |-> line]

\* startLogEmitter, one turn of `for scanner.Scan()` with a line:
\*   src.q.Add(line); bus.Dispatch(evt, LogTopic);
\*   for each sink: Write, and newError(bus, SinkError{...}) when it fails.
\* A Write fails when the sink says so (bad) and on a closed sink.
EmitLine(s) ==
    /\ ~LogPanic
    /\ source[s].pc = "scan"
    /\ source[s].scanned < MaxEmit
    /\ LET line == source[s].scanned + 1
           qu == Add(source[s].q, line)
       IN  IF qu.panic
           THEN /\ source' = [source EXCEPT ![s].q = qu, ![s].pc = "panic"]
                /\ UNCHANGED <<sink, lineEvents, errorEvents>>
           ELSE \E bad \in SUBSET SinksOf(s) :
                  LET fails == {k \in SinksOf(s) : k \in bad \/ sink[k].closed}
                  IN  /\ source' = [source EXCEPT ![s].q = qu,
                                                  ![s].scanned = line]
                      /\ lineEvents' = [lineEvents EXCEPT ![s] = Append(@, line)]
                      /\ sink' = [k \in DOMAIN sink |->
                                    IF k \in fails
                                    THEN [sink[k] EXCEPT !.failed = @ \cup {<<s, line>>}]
                                    ELSE IF k \in SinksOf(s)
                                    THEN [sink[k] EXCEPT !.written = Append(@, <<s, line>>)]
                                    ELSE sink[k]]
                      /\ errorEvents' = errorEvents \cup
                             {newError("proc.SinkError", s, line) : k \in fails}
    /\ UNCHANGED <<wait, logCtx>>

\* scanner.Scan() returns false at the end of the stream; the deferred
\* done() calls l.wg.Done()
EmitterEOF(s) ==
    /\ ~LogPanic
    /\ source[s].pc = "scan"
    /\ source[s].scanned = MaxEmit
    /\ source' = [source EXCEPT ![s].pc = "done"]
    /\ UNCHANGED <<sink, lineEvents, errorEvents, wait, logCtx>>

\* scanner.Scan() returns false because the read failed or the line is
\* longer than the scanner's buffer: the loop ends, scanner.Err() is not
\* looked at, and the deferred done() runs
ScanFails(s) ==
    /\ ~LogPanic
    /\ source[s].pc = "scan"
    /\ source[s].scanned < MaxEmit
    /\ source' = [source EXCEPT ![s].pc = "done", ![s].readError = TRUE]
    /\ UNCHANGED <<sink, lineEvents, errorEvents, wait, logCtx>>

\* l.Wait(ctx) up to its select
LogWait ==
    /\ ~LogPanic
    /\ wait.pc = "none"
    /\ wait' = [wait EXCEPT !.pc = "select"]
    /\ UNCHANGED <<source, sink, lineEvents, errorEvents, logCtx>>

\* the deferred function of Wait: s.out.Close() for every sink
CloseSinks == [k \in DOMAIN sink |-> [sink[k] EXCEPT !.closed = TRUE]]

\* l.wg.Wait() has returned and wgDone is closed
WgDone == \A s \in DOMAIN source : source[s].pc = "done"

\* case <-wgDone: return nil
WaitReturnNil ==
    /\ ~LogPanic
    /\ wait.pc = "select"
    /\ WgDone
    /\ wait' = [pc |-> "returned", err |-> "nil"]
    /\ sink' = CloseSinks
    /\ UNCHANGED <<source, lineEvents, errorEvents, logCtx>>

\* case <-ctx.Done(): return fmt.Errorf("context cancelled ...")
WaitReturnTimeout ==
    /\ ~LogPanic
    /\ wait.pc = "select"
    /\ logCtx
    /\ wait' = [pc |-> "returned", err |-> "context cancelled"]
    /\ sink' = CloseSinks
    /\ UNCHANGED <<source, lineEvents, errorEvents, logCtx>>

\* the deadline of ctx passes, or ctx is cancelled
LogCtxDone ==
    /\ ~LogPanic
    /\ wait.pc = "select"
    /\ ~logCtx
    /\ logCtx' = TRUE
    /\ UNCHANGED <<source, sink, lineEvents, errorEvents, wait>>

InitLog ==
    /\ \E cfg \in LogConfigs : \E h \in LogHistories : NewLogProcessor(cfg, h)
    /\ IdleSup
    /\ IdleStat
    /\ IdleTest
    /\ IdleBus
    /\ IdleFsm
    /\ IdleHist
    /\ IdleMet

NextLog ==
    \/ (\E s \in DOMAIN source : EmitLine(s))
         /\ UNCHANGED <<supVars, statVars, testVars, busVars, fsmVars, histVars,
                     metVars>>
    \/ (\E s \in DOMAIN source : EmitterEOF(s))
         /\ UNCHANGED <<supVars, statVars, testVars, busVars, fsmVars, histVars,
                     metVars>>
    \/ (\E s \in DOMAIN source : ScanFails(s))
         /\ UNCHANGED <<supVars, statVars, testVars, busVars, fsmVars, histVars,
                     metVars>>
    \/ LogWait
         /\ UNCHANGED <<supVars, statVars, testVars, busVars, fsmVars, histVars,
                     metVars>>
    \/ WaitReturnNil
         /\ UNCHANGED <<supVars, statVars, testVars, busVars, fsmVars, histVars,
                     metVars>>
    \/ WaitReturnTimeout
         /\ UNCHANGED <<supVars, statVars, testVars, busVars, fsmVars, histVars,
                     metVars>>
    \/ LogCtxDone
         /\ UNCHANGED <<supVars, statVars, testVars, busVars, fsmVars, histVars,
                     metVars>>

SpecLog == InitLog /\ [][NextLog]_vars

\* C26: when a sink write or a scanner read fails while a source is being
\* processed, an error event is published on the error topic and scanning of
\* the source goes on: the emitter ends only at the end of the stream, with
\* every line queued and dispatched and written to every sink whose write
\* did not fail.
C26_ErrorsReportedScanGoesOn ==
    ~LogPanic =>
        /\ \A k \in DOMAIN sink : \A w \in sink[k].failed :
               newError("proc.SinkError", w[1], w[2]) \in errorEvents
        /\ \A s \in DOMAIN source :
               /\ source[s].readError =>
                      \E e \in errorEvents :
                          e.type = "proc.ScanError" /\ e.source = s
               /\ source[s].pc = "done" =>
                      /\ source[s].scanned = MaxEmit
                      /\ Len(lineEvents[s]) = MaxEmit

\* C27: Wait closes the sinks only after the emitter of every source has
\* reached the end of its stream, also when the deadline passes first and
\* Wait returns the timeout error: no sink is closed while an emitter may
\* still write to it.
C27_SinksClosedAfterEmitters ==
    \A k \in DOMAIN sink :
        sink[k].closed =>
            \A s \in DOMAIN source : k \in SinksOf(s) => source[s].pc = "done"

-----------------------------------------------------------------------------
\* PART VIII.  The metric package: Series, SampledSeries, WindowedCounter.

\* the largest capacity of a Series explored
MaxSeriesCap == 3

\* observations recorded into a Series
MaxRecords == 4

\* the observations: none of them is 0, the value of an unused slot
ObsValues == {1, 2, 3}

\* s.Record(p) on a Series
RecordSeries ==
    /\ Len(recorded) < MaxRecords
    /\ \E p \in ObsValues :
         /\ series' = RingRecord(series, p)
         /\ recorded' = Append(recorded, p)

InitSeries ==
    /\ \E cap \in 1..MaxSeriesCap : series = NewSeries(cap, FALSE)
    /\ recorded = <<>>
    /\ IdleSup
    /\ IdleStat
    /\ IdleTest
    /\ IdleBus
    /\ IdleFsm
    /\ IdleHist
    /\ IdleLog
    /\ IdleSamp
    /\ IdleCtr

NextSeries ==
    \/ RecordSeries
         /\ UNCHANGED <<supVars, statVars, testVars, busVars, fsmVars,
                        histVars, logVars, sampVars, ctrVars>>

SpecSeries == InitSeries /\ [][NextSeries]_vars

\* the last k elements of a sequence, in order
LastOf(k, s) == SubSeq(s, Len(s) - k + 1, Len(s))

\* C28 as stated: for every capacity c > 0 and every observation sequence
\* s, after recording s into a new Series, Values() is the last min(c, |s|)
\* observations of s, oldest first, and nothing else.
C28_ValuesAreLastObservations ==
    Len(recorded) >= 1 =>
        SeriesValues(series) =
            LastOf(MinOf(Len(series.values), Len(recorded)), recorded)

\* C28: for every capacity c > 0 and every observation sequence s, after
\* recording s into a new Series, Values() has c elements: the last c
\* observations of s, oldest first, when |s| >= c, and otherwise s followed
\* by c - |s| zeros.
C28_ValuesAreLastObservationsPadded ==
    LET cap == Len(series.values)
        n == Len(recorded)
    IN  SeriesValues(series) =
            IF n >= cap THEN LastOf(cap, recorded)
            ELSE recorded \o [i \in 1..(cap - n) |-> 0]

\* the ring has wrapped around and its oldest slot is not the first
C28_Witness ==
    /\ Len(series.values) >= 2
    /\ Len(recorded) > Len(series.values)
    /\ nextIndex(series) # 0
    /\ SeriesValues(series) = LastOf(Len(series.values), recorded)

\* calls of SampledSeries.Record made in a run
MaxSampledRecords == 3

\* ticks the goroutine receives in a run
MaxTicks == 2

\* NewSampledSeries(capacity, window, SampleSum): the Series, the empty obs
\* and the mutex; the goroutine waits for its ticker
NewSampledSeries(capacity) ==
    /\ ss = [s |-> NewSeries(capacity, TRUE), mu |-> "free"]
    /\ recorders = <<>>
    /\ ticker = "wait"
    /\ samples = <<>>

\* a caller enters ss.Record(obs) and calls s.mu.Lock(); the observation is
\* the number of the call
CallSampledRecord ==
    /\ Len(recorders) < MaxSampledRecords
    /\ recorders' = Append(recorders, "lock")
    /\ UNCHANGED <<ss, ticker, samples>>

\* s.mu.Lock() returns in Record
RecordLock(r) ==
    /\ recorders[r] = "lock"
    /\ ss.mu = "free"
    /\ ss' = [ss EXCEPT !.mu = "record"]
    /\ recorders' = [recorders EXCEPT ![r] = "held"]
    /\ UNCHANGED <<ticker, samples>>

\* s.obs = append(s.obs, obs) and the deferred s.mu.Unlock()
RecordAppend(r) ==
    /\ recorders[r] = "held"
    /\ ss' = [ss EXCEPT !.s = SeriesRecord(@, r), !.mu = "free"]
    /\ recorders' = [recorders EXCEPT ![r] = "returned"]
    /\ UNCHANGED <<ticker, samples>>

\* case <-s.t.C: the goroutine receives a tick and calls s.mu.Lock()
SampleTick ==
    /\ ticker = "wait"
    /\ Len(samples) < MaxTicks
    /\ ticker' = "lock"
    /\ UNCHANGED <<ss, recorders, samples>>

\* s.mu.Lock() returns in the goroutine
TickLock ==
    /\ ticker = "lock"
    /\ ss.mu = "free"
    /\ ss' = [ss EXCEPT !.mu = "ticker"]
    /\ ticker' = "held"
    /\ UNCHANGED <<recorders, samples>>

\* the goroutine under the lock: Record(0.0) or Record(transform(obs)) and
\* a new obs, then s.mu.Unlock()
TickSample ==
    /\ ticker = "held"
    /\ ss' = [ss EXCEPT !.s = SampledTick(@), !.mu = "free"]
    /\ samples' = Append(samples, ss.s.obs)
    /\ ticker' = "wait"
    /\ UNCHANGED recorders

InitSampled ==
    /\ \E capacity \in 1..MaxSeriesCap : NewSampledSeries(capacity)
    /\ IdleSup
    /\ IdleStat
    /\ IdleTest
    /\ IdleBus
    /\ IdleFsm
    /\ IdleHist
    /\ IdleLog
    /\ IdleSer
    /\ IdleCtr

NextSampled ==
    \/ CallSampledRecord
         /\ UNCHANGED <<supVars, statVars, testVars, busVars, fsmVars,
                        histVars, logVars, serVars, ctrVars>>
    \/ (\E r \in DOMAIN recorders : RecordLock(r))
         /\ UNCHANGED <<supVars, statVars, testVars, busVars, fsmVars,
                        histVars, logVars, serVars, ctrVars>>
    \/ (\E r \in DOMAIN recorders : RecordAppend(r))
         /\ UNCHANGED <<supVars, statVars, testVars, busVars, fsmVars,
                        histVars, logVars, serVars, ctrVars>>
    \/ SampleTick
         /\ UNCHANGED <<supVars, statVars, testVars, busVars, fsmVars,
                        histVars, logVars, serVars, ctrVars>>
    \/ TickLock
         /\ UNCHANGED <<supVars, statVars, testVars, busVars, fsmVars,
                        histVars, logVars, serVars, ctrVars>>
    \/ TickSample
         /\ UNCHANGED <<supVars, statVars, testVars, busVars, fsmVars,
                        histVars, logVars, serVars, ctrVars>>

SpecSampled == InitSampled /\ [][NextSampled]_vars

\* the value a tick appends for the observations it found
SampleOf(obs) == IF obs = <<>> THEN 0 ELSE SampleSum(obs)

\* the values of the ticks so far
SampleValues == [i \in 1..Len(samples) |-> SampleOf(samples[i])]

\* in how many samples, and in the pending obs, the observation r is
Occurs(r) ==
    Cardinality({i \in 1..Len(samples) :
                    \E j \in 1..Len(samples[i]) : samples[i][j] = r})
    + Cardinality({j \in 1..Len(ss.s.obs) : ss.s.obs[j] = r})

\* C29: every tick appends exactly one value to the underlying Series, the
\* reducer of the observations recorded since the previous tick, or 0 when
\* there is none; every recorded observation is in exactly one sample, or
\* still waits for the next tick, also when Record runs at the same time as
\* the tick.
C29_OneSamplePerTick ==
    LET cap == Len(ss.s.values)
        n == Len(samples)
    IN  /\ SeriesCount(ss.s) = n
        /\ SeriesValues(ss.s) =
               IF n >= cap THEN LastOf(cap, SampleValues)
               ELSE SampleValues \o [i \in 1..(cap - n) |-> 0]
        /\ \A r \in DOMAIN recorders :
               Occurs(r) = IF recorders[r] = "returned" THEN 1 ELSE 0
        /\ \A i \in 1..Len(samples) : \A j, k \in 1..Len(samples[i]) :
               samples[i][j] = samples[i][k] => j = k

\* after a first sample the goroutine holds the lock for the second one,
\* with an observation to sample, while a Record call waits for the lock
C29_Witness ==
    /\ Len(samples) = 1
    /\ samples[1] # <<>>
    /\ ticker = "held"
    /\ ss.s.obs # <<>>
    /\ \E r \in DOMAIN recorders : recorders[r] = "lock"

\* the window durations explored; with 0 a WindowedCounter does no windowing
Durations == {0, 1, 2}

\* the clock readings of a run
MaxClock == 4

\* the total added between two Resets
MaxAdded == 4

\* NewWindowedCounter(duration)
NewWindowedCounter(duration) ==
    [hist |-> <<>>, current |-> NewCounterAt(clock, duration)]

\* end := c.current.start.Add(c.current.duration)
WindowEnd(wc) == wc.current.start + wc.current.duration

\* WindowedCounter.Value at the time `at`
WindowedValue(wc, at) ==
    IF at > WindowEnd(wc) /\ wc.current.duration >= 0 THEN 0
    ELSE wc.current.value

\* WindowedCounter.Add at the time `at`
WindowedAdd(wc, i, at) ==
    IF at < WindowEnd(wc) \/ wc.current.duration = 0
    THEN [wc EXCEPT !.current.value = @ + i]
    ELSE [hist |-> Append(wc.hist, wc.current),
          current |-> [start |-> at, duration |-> wc.current.duration,
                       value |-> i]]

\* WindowedCounter.History at the time `at`
WindowedHistory(wc, at) ==
    IF at > WindowEnd(wc) \/ wc.current.duration = 0
    THEN Append(wc.hist, wc.current)
    ELSE wc.hist

\* WindowedCounter.HistoryInclusive
HistoryInclusive(wc) == Append(wc.hist, wc.current)

\* WindowedCounter.Reset at the time `at`
WindowedReset(wc, at) ==
    [hist |-> <<>>, current |-> NewCounterAt(at, wc.current.duration)]

\* c.Add(i)
CounterAdd ==
    /\ \E i \in 1..2 :
         /\ added + i <= MaxAdded
         /\ counter' = WindowedAdd(counter, i, clock)
         /\ added' = added + i
    /\ UNCHANGED clock

\* c.Reset()
CounterReset ==
    /\ added > 0
    /\ counter' = WindowedReset(counter, clock)
    /\ added' = 0
    /\ UNCHANGED clock

\* time passes
ClockAdvance ==
    /\ clock < MaxClock
    /\ clock' = clock + 1
    /\ UNCHANGED <<counter, added>>

InitCounter ==
    /\ clock = 0
    /\ \E duration \in Durations : counter = NewWindowedCounter(duration)
    /\ added = 0
    /\ IdleSup
    /\ IdleStat
    /\ IdleTest
    /\ IdleBus
    /\ IdleFsm
    /\ IdleHist
    /\ IdleLog
    /\ IdleSer
    /\ IdleSamp

NextCounter ==
    \/ CounterAdd
         /\ UNCHANGED <<supVars, statVars, testVars, busVars, fsmVars,
                        histVars, logVars, serVars, sampVars>>
    \/ CounterReset
         /\ UNCHANGED <<supVars, statVars, testVars, busVars, fsmVars,
                        histVars, logVars, serVars, sampVars>>
    \/ ClockAdvance
         /\ UNCHANGED <<supVars, statVars, testVars, busVars, fsmVars,
                        histVars, logVars, serVars, sampVars>>

SpecCounter == InitCounter /\ [][NextCounter]_vars

\* the sum of the values of a list of Counters
RECURSIVE SumValues(_)
SumValues(cs) == IF cs = <<>> THEN 0 ELSE Head(cs).value + SumValues(Tail(cs))

\* C30: at every instant Value() plus the sum of the values in History()
\* equals the sum of the values in HistoryInclusive(), which equals the
\* total of the amounts added since construction or the last Reset; and
\* Value() is 0 when the clock has passed the end of the current window and
\* no Add was made since.
C30_CounterSumsAgree ==
    /\ WindowedValue(counter, clock) + SumValues(WindowedHistory(counter, clock))
           = SumValues(HistoryInclusive(counter))
    /\ SumValues(HistoryInclusive(counter)) = added
    /\ (counter.current.duration > 0 /\ clock > WindowEnd(counter))
           => WindowedValue(counter, clock) = 0

\* C31: every window that History() returns received at least one Add: a
\* window that passes without an observation, such as the first one after
\* construction or after Reset, is not in the history.  Every Add adds at
\* least 1, so a window received an Add exactly when its value is not 0.
C31_HistoryWindowsHaveAdds ==
    counter.current.duration > 0 =>
        \A i \in 1..Len(WindowedHistory(counter, clock)) :
            WindowedHistory(counter, clock)[i].value > 0

\* C32: every write to the shared state of the Command is made by a
\* goroutine that holds c.mutex, the clearing of c.RuleMatches after a
\* confirmed send included: while a goroutine holds the mutex, the only step
\* that changes c.RuleMatches is the write of that goroutine, which ends
\* with Unlock.
C32_WritesUnderMutex ==
    [][(mutex # "free" /\ c'.RuleMatches # c.RuleMatches) => mutex' = "free"]_vars

\* C33: TestStatistic.Record never returns a transition-not-allowed error:
\* whatever the state of the machine, and in Reset after an alarm with a
\* current value and a limit computed before, every transition that Record
\* attempts is an edge from the state the machine is in, and a Record made
\* in Reset ends in UCLInitial.
C33_RecordTakesOnlyEdges ==
    lastOp.op = "Record" =>
        /\ lastOp.err # "TransitionNotAllowed"
        /\ (lastOp.from = Reset /\ lastOp.err # "undefined")
               => estimator.fsm.current = UCLInitial

(***************************************************************************)
(* Rule matches and the reports that carry them.                           *)
(***************************************************************************)
\* the matches of c.RuleMatches that a step removes
RemovedMatches == Range(Lines(c.RuleMatches)) \ Range(Lines(c'.RuleMatches))

\* C34: every rule match that a step removes from c.RuleMatches is in the
\* snapshot of a report whose send returned nil and whose Send goroutine
\* takes that result in the step; a match appended after the snapshot is
\* not removed with it.
C34_ClearedMatchesWereReported ==
    [][RemovedMatches # {}
         => \E r \in BagToSet(sends) :
               /\ r.result = "nil"
               /\ sends' = Remove(r)
               /\ RemovedMatches \subseteq Range(r.snap)]_vars

\* two Send goroutines, or two copies of one, delivered a report each
DeliveredTwice(line) ==
    \E r1, r2 \in BagToSet(sends) :
        /\ {r1.reason, r2.reason} \subseteq {Alert, AlertRate}
        /\ r1.result = "nil" /\ r2.result = "nil"
        /\ line \in Range(r1.snap) /\ line \in Range(r2.snap)
        /\ (r1 = r2 => CopiesIn(r1, sends) >= 2)

\* C35: no rule match is carried by two Alert or AlertRate reports that
\* were both delivered (their background sends returned nil).
C35_MatchDeliveredOnce ==
    \A line \in 1..MaxLines : ~DeliveredTwice(line)

(***************************************************************************)
(* Panics of the bus and deliveries made twice.                            *)
(***************************************************************************)
\* the step in which a goroutine of the bus panics
BusPanics == ~busPanic /\ busPanic'

\* the panic of a delivery goroutine: the only one that leaves the
\* subscribers and the Shutdown call as they were
DeliveryPanics == BusPanics /\ subscriber' = subscriber /\ shutdown' = shutdown

\* C36: no delivery goroutine sends on a closed stream: none of them
\* panics, whatever Unsubscribe and Shutdown calls run beside the pending
\* deliveries of earlier Dispatch calls.
C36_NoSendOnClosedStream ==
    [][~DeliveryPanics]_vars

\* C37: no Unsubscribe call, Shutdown call or ShutdownFunc closes a channel
\* that is closed already: none of these operations panics.
C37_NoChannelClosedTwice ==
    [][BusPanics => DeliveryPanics]_vars

\* a bus whose callers subscribe to two topics and name two topics, or
\* one topic twice, in a Dispatch call
InitFanout ==
    /\ NewBus
    /\ callers = MultiCallers
    /\ IdleSup
    /\ IdleStat
    /\ IdleTest
    /\ IdleFsm
    /\ IdleTail

\* Subscribe and Dispatch calls, the delivery goroutines and the readers;
\* no subscriber leaves and the bus is not shut down
NextFanout ==
    \/ CallSubscribe /\ UNCHANGED <<supVars, statVars, testVars, fsmVars, tailVars>>
    \/ CallDispatch /\ UNCHANGED <<supVars, statVars, testVars, fsmVars, tailVars>>
    \/ (\E call \in BagToSet(busCalls) : SubscribeBody(call))
         /\ UNCHANGED <<supVars, statVars, testVars, fsmVars, tailVars>>
    \/ (\E e \in DOMAIN events : DispatchBody(e))
         /\ UNCHANGED <<supVars, statVars, testVars, fsmVars, tailVars>>
    \/ (\E d \in deliveries : DeliverRLock(d))
         /\ UNCHANGED <<supVars, statVars, testVars, fsmVars, tailVars>>
    \/ (\E d \in deliveries : DeliverSend(d))
         /\ UNCHANGED <<supVars, statVars, testVars, fsmVars, tailVars>>
    \/ (\E s \in DOMAIN stream : Receive(s))
         /\ UNCHANGED <<supVars, statVars, testVars, fsmVars, tailVars>>

SpecFanout == InitFanout /\ [][NextFanout]_vars

\* the number of times a subscriber received the event e
TimesReceived(s, e) == CountIn(subscriber[s].order, e)

\* C38: a subscriber receives each dispatched event at most once.
C38_DeliveredAtMostOnce ==
    \A s \in DOMAIN subscriber : \A e \in DOMAIN events :
        TimesReceived(s, e) <= 1

(***************************************************************************)
(* The composite Transition as one step (SpecTest).                        *)
(***************************************************************************)
\* the step is a call of t.Transition
TransitionCalled == testCalls' = testCalls + 1 /\ testOp'.op = "Transition"

\* statistic i is as it was: the state of its machine and its series
SubUntouched(i) ==
    /\ test'[i].fsm.current = test[i].fsm.current
    /\ test'[i].series = test[i].series

\* a failed composite Transition leaves every statistic as it was
C39_ErrorChangesNothing ==
    (TransitionCalled /\ testOp'.err # "nil")
        => \A i \in 1..Len(test) : SubUntouched(i)

\* a composite Transition that returns nil leaves all statistics in the
\* state asked for
C39_NilReachesAll ==
    (TransitionCalled /\ testOp'.err = "nil")
        => \E state \in States :
              \A i \in 1..Len(test) : test'[i].fsm.current = state

\* C39: the composite Transition is all or nothing: when it returns an
\* error no statistic has changed the state of its machine or lost its
\* series; when it returns nil every statistic is in the state asked for.
C39_TransitionAllOrNothing ==
    [][C39_ErrorChangesNothing /\ C39_NilReachesAll]_vars

(***************************************************************************)
(* The supervised run with the wall clock advancing (SpecTimed): the run   *)
(* of SpecWarn with time passing between the start of the child and the    *)
(* handler that ends the run.                                              *)
(***************************************************************************)
NextTimed ==
    \/ ExecStart /\ UNCHANGED <<statVars, extVars>>
    \/ Tick /\ UNCHANGED <<statVars, extVars>>
    \/ ChildExit /\ UNCHANGED <<statVars, extVars>>
    \/ (\E s \in Streams : ScanLine(s)) /\ UNCHANGED <<statVars, extVars>>
    \/ (\E s \in Streams : AlertAndHistory(s)) /\ UNCHANGED <<statVars, extVars>>
    \/ (\E s \in Streams : ScanEOF(s)) /\ UNCHANGED <<statVars, extVars>>
    \/ FinisherReap /\ UNCHANGED <<statVars, extVars>>
    \/ FinisherNotify /\ UNCHANGED <<statVars, extVars>>
    \/ HandlerFinished /\ UNCHANGED <<statVars, extVars>>
    \/ FinishedStatus /\ UNCHANGED <<statVars, extVars>>
    \/ FinishedReturn /\ UNCHANGED <<statVars, extVars>>
    \/ HandlerSignal /\ UNCHANGED <<statVars, extVars>>
    \/ HandlerTimeout /\ UNCHANGED <<statVars, extVars>>
    \/ HandlerTimeWarning /\ UNCHANGED <<statVars, extVars>>
    \/ HandlerCheckMemory /\ UNCHANGED <<statVars, extVars>>
    \/ HandlerKillOnHighMemory /\ UNCHANGED <<statVars, extVars>>
    \/ CallWait /\ UNCHANGED <<statVars, extVars>>
    \/ WaitReturn /\ UNCHANGED <<statVars, extVars>>
    \/ (\E r \in BagToSet(sends) : SendCreate(r)) /\ UNCHANGED <<statVars, extVars>>
    \/ (\E r \in BagToSet(sends) : BgRegister(r)) /\ UNCHANGED <<statVars, extVars>>
    \/ (\E r \in BagToSet(sends) : BgFinish(r)) /\ UNCHANGED <<statVars, extVars>>
    \/ (\E r \in BagToSet(sends) : SendResult(r)) /\ UNCHANGED <<statVars, extVars>>
    \/ (\E r \in BagToSet(sends) : SendTimeout(r)) /\ UNCHANGED <<statVars, extVars>>

SpecTimed == InitWarn /\ [][NextTimed]_vars

\* C40: once a terminal handler (Finished, Signal, Timeout,
\* KillOnHighMemory) has run, c.Duration is c.Finish minus c.Start and is
\* not negative.
C40_DurationIsFinishMinusStart ==
    terminal # "none" =>
        /\ c.Duration = c.Finish - c.Start
        /\ c.Duration >= 0

====
